---- MODULE Spec2Model ----
(***************************************************************************)
(* Verification model of the pokedex-companion data layer (lib/api.ts).    *)
(*                                                                         *)
(*   SpecFlatten : flattenEvolutionChain, one step per call of / return    *)
(*                 from the recursive helper traverse                      *)
(*   SpecEff     : calculateTypeEffectiveness, one step per forEach        *)
(*                 callback                                                *)
(*                                                                         *)
(* Strings the code takes apart (species urls) are sequences of            *)
(* one-character strings.  Multipliers are exact rationals <<num, den>>    *)
(* in lowest terms (every value the code can produce from the factors 2,   *)
(* 0.5 and 0 is a power of two or zero, which IEEE doubles hold exactly).  *)
(***************************************************************************)
EXTENDS Integers, Sequences, FiniteSets, TLC

VARIABLES
  chain,          \* flattenEvolutionChain: the argument (root ChainLink)
  stack,          \* call stack of traverse: frames [link, i], top = last
  result,         \* the local array `result`
  pc,             \* "init" | "traverse" | "done"
  typeDataList,   \* calculateTypeEffectiveness: the argument
  effectiveness,  \* the local record `effectiveness` (a function on its keys)
  ti,             \* index of the table the for-of loop is at (1-based)
  phase,          \* "double" | "half" | "no" : which forEach is running
  k,              \* index of the next entry of that forEach (1-based)
  epc,            \* "init" | "loop" | "done"
  details,        \* formatEvolutionDetails: the argument (nullable array)
  label,          \* formatEvolutionDetails: the outcome [threw, value]
  fpc,            \* "init" | "done"
  returned,       \* the calls made so far: [fn, input, output], oldest first
  team,           \* TeamBuilder: state `team` (members [id, nickname])
  isHydrated,     \* state `isHydrated`
  searchQuery,    \* state `searchQuery` (characters)
  searchResults,  \* state `searchResults` (ids, in order)
  isSearching,    \* state `isSearching`
  editingNickname,\* state `editingNickname` (nullable id)
  nicknameInput,  \* state `nicknameInput` (characters)
  stored,         \* localStorage[STORAGE_KEY] (nullable text)
  storage,        \* "ok" | "full" (setItem throws) | "denied" (all access throws)
  effects,        \* effects of past commits not yet run: [fx, team, isHydrated]
  fetches,        \* addToTeam calls waiting for their fetch: id -> how many
  searches,       \* handleSearch calls waiting for searchPokemon: queries
  resource,       \* getPokemon / getPokemonSpecies / getMove: which of them
  idOrName,       \* its argument [isNumber, n, s]
  status,         \* the status of the API's answer
  fetched,        \* its outcome [kind, message]: data, null or a thrown Error
  gpc,            \* "idle" | "init" | "awaiting" | "done"
  pageParam,      \* PokedexPage: params.page (nullable characters)
  limit,          \* getPokemonList: the argument limit
  offset,         \* getPokemonList: the argument offset
  clampedLimit,   \* getPokemonList: the limit sent to the API
  lpc,            \* "idle" | "page" | "list" | "sent"
  pokemon,        \* getLetsGoMoves: the argument (its field moves)
  letsGoMoves,    \* the local array `letsGoMoves`
  mi,             \* index of the entry the for-of loop is at (1-based)
  mpc,            \* "idle" | "loop" | "done"
  totalPages,     \* PokedexPage pagination: totalPages
  currentPage,    \* currentPage
  shownPages,     \* the array after .filter (page numbers)
  pageItems,      \* the array after .reduce (page numbers and "...")
  ppc             \* "idle" | "filter" | "reduce" | "done"

flattenVars == <<chain, stack, result, pc>>
effVars == <<typeDataList, effectiveness, ti, phase, k, epc>>
fmtVars == <<details, label, fpc>>
callVars == <<returned>>
\* the variables other than those of the two functions and of their callers
teamVars == <<team, isHydrated, searchQuery, searchResults, isSearching,
              editingNickname, nicknameInput, stored, storage, effects,
              fetches, searches>>
getVars == <<resource, idOrName, status, fetched, gpc>>
\* the variables of the library functions called one at a time
listVars == <<pageParam, limit, offset, clampedLimit, lpc>>
moveVars == <<pokemon, letsGoMoves, mi, mpc>>
stripVars == <<totalPages, currentPage, shownPages, pageItems, ppc>>
libVars == <<getVars, listVars, moveVars, stripVars>>
restVars == <<fmtVars, teamVars, libVars>>
\* the variables of the subsystems other than the two above
extVars == <<callVars, restVars>>
vars == <<flattenVars, effVars, extVars>>

(***************************************************************************)
(* Bounds and program constants                                            *)
(***************************************************************************)
MaxNodes == 4
MaxTables == 2
LETS_GO_MAX_POKEMON == 151

\* A nullable field (T | null) holds the set of its values: {} for null,
\* {v} for the value v.
Null == {}
Some(v) == {v}

\* A JavaScript number that may be NaN
Num(n) == [nan |-> FALSE, val |-> n]
NaN == [nan |-> TRUE, val |-> 0]

(***************************************************************************)
(* String helpers: String.prototype.split("/"), Array.prototype.filter     *)
(* (Boolean), Array.prototype.pop, parseInt                                *)
(***************************************************************************)
RECURSIVE SplitFrom(_, _, _, _)
SplitFrom(str, i, cur, acc) ==
  IF i > Len(str) THEN Append(acc, cur)
  ELSE IF str[i] = "/" THEN SplitFrom(str, i + 1, <<>>, Append(acc, cur))
  ELSE SplitFrom(str, i + 1, Append(cur, str[i]), acc)

\* str.split("/"): the pieces between separators, empty pieces included
Split(str) == SplitFrom(str, 1, <<>>, <<>>)

\* arr.filter(Boolean) on an array of strings: drops the empty strings
FilterBoolean(arr) == SelectSeq(arr, LAMBDA s : s # <<>>)

\* arr.pop() ?? dflt: the last element, dflt for an empty array (pop gives
\* undefined)
PopOr(arr, dflt) == IF arr = <<>> THEN dflt ELSE arr[Len(arr)]

Digits == {"0", "1", "2", "3", "4", "5", "6", "7", "8", "9"}

DigitVal(c) ==
  CASE c = "0" -> 0 [] c = "1" -> 1 [] c = "2" -> 2 [] c = "3" -> 3
    [] c = "4" -> 4 [] c = "5" -> 5 [] c = "6" -> 6 [] c = "7" -> 7
    [] c = "8" -> 8 [] c = "9" -> 9

RECURSIVE SkipSpace(_, _)
SkipSpace(str, i) ==
  IF i <= Len(str) /\ str[i] = " " THEN SkipSpace(str, i + 1) ELSE i

RECURSIVE ReadDigits(_, _, _, _)
\* <<value, number of digits read>> of the longest digit run starting at i
ReadDigits(str, i, val, n) ==
  IF i <= Len(str) /\ str[i] \in Digits
  THEN ReadDigits(str, i + 1, 10 * val + DigitVal(str[i]), n + 1)
  ELSE <<val, n>>

\* parseInt(str) without radix: leading white space is skipped, an optional
\* sign is read, then the longest run of decimal digits; whatever follows is
\* ignored; NaN when there is no digit.  (Hexadecimal "0x" literals are not
\* in the alphabet of the modelled urls.)
parseInt(str) ==
  LET i0 == SkipSpace(str, 1)
      signed == i0 <= Len(str) /\ str[i0] \in {"+", "-"}
      i1 == IF signed THEN i0 + 1 ELSE i0
      r == ReadDigits(str, i1, 0, 0)
  IN IF r[2] = 0 THEN NaN
     ELSE IF signed /\ str[i0] = "-" THEN Num(0 - r[1]) ELSE Num(r[1])

\* a <= b on numbers: false as soon as one side is NaN
NumLeq(a, b) == ~a.nan /\ ~b.nan /\ a.val <= b.val

\* a > b on numbers: false as soon as one side is NaN
NumGt(a, b) == ~a.nan /\ ~b.nan /\ a.val > b.val

(***************************************************************************)
(* Evolution chains (types/pokemon.ts: NamedAPIResource, EvolutionDetail,  *)
(* ChainLink)                                                              *)
(***************************************************************************)
\* "<prefix>/<id>/" urls as the API sends them, and the malformed ones
UrlWithin == <<"s", "/", "1", "5", "1", "/">>     \* id 151, the last one kept
UrlAbove == <<"s", "/", "1", "5", "2", "/">>      \* id 152, the first one dropped
UrlEmpty == <<>>                                  \* no segment at all
UrlNoId == <<"s", "/", "x", "/">>                 \* trailing segment is no number
Urls == {UrlWithin, UrlAbove, UrlEmpty, UrlNoId}

\* names and other strings of the API, as sequences of characters
StrLevelUp == <<"l", "e", "v", "e", "l", "-", "u", "p">>
StrUseItem == <<"u", "s", "e", "-", "i", "t", "e", "m">>
StrTrade == <<"t", "r", "a", "d", "e">>
StrShed == <<"s", "h", "e", "d">>
StrTakeDamage == <<"t", "a", "k", "e", "-", "d", "a", "m", "a", "g", "e">>
StrThunderStone == <<"t", "h", "u", "n", "d", "e", "r", "-", "s", "t", "o", "n", "e">>
StrMetalCoat == <<"m", "e", "t", "a", "l", "-", "c", "o", "a", "t">>
StrMtCoronet == <<"m", "t", "-", "c", "o", "r", "o", "n", "e", "t">>
StrNight == <<"n", "i", "g", "h", "t">>

\* an EvolutionDetail: "level-up" at level 16
LevelUp16 ==
  [trigger |-> [name |-> StrLevelUp], item |-> Null, min_level |-> Some(16),
   min_happiness |-> Null, time_of_day |-> <<>>, held_item |-> Null,
   known_move |-> Null, location |-> Null]

DetailLists == {<<>>, <<LevelUp16>>}

RECURSIVE ShapeForests(_)
\* The shape of a chain is the sequence of the shapes of its evolves_to
\* entries.  ShapeForests(n): the sequences of shapes with n nodes in total.
ShapeForests(n) ==
  IF n = 0 THEN {<<>>}
  ELSE UNION { { <<t>> \o rest : t \in ShapeForests(m - 1),
                                 rest \in ShapeForests(n - m) } :
               m \in 1..n }

\* the shapes of the chains with 1..MaxNodes links
Shapes == UNION { ShapeForests(n - 1) : n \in 1..MaxNodes }

RECURSIVE ShapePaths(_)
\* the positions of a shape: the sequences of child indices from the root
ShapePaths(sh) ==
  {<<>>} \cup UNION { { <<c>> \o p : p \in ShapePaths(sh[c]) } :
                      c \in 1..Len(sh) }

RECURSIVE BuildChain(_, _, _, _)
\* The ChainLink of shape sh at position path whose links carry the urls and
\* evolution details given per position.  Species names are unique within a
\* chain; the model names each species by its position.  is_baby is never
\* read by the code and is left out.
BuildChain(sh, path, urls, dets) ==
  [species |-> [name |-> path, url |-> urls[path]],
   evolution_details |-> dets[path],
   evolves_to |-> [c \in 1..Len(sh) |->
                     BuildChain(sh[c], Append(path, c),
                                urls, dets)]]

(***************************************************************************)
(* flattenEvolutionChain                                                   *)
(***************************************************************************)
\* parseInt(link.species.url.split("/").filter(Boolean).pop() ?? "0")
evoId(link) == parseInt(PopOr(FilterBoolean(Split(link.species.url)), <<"0">>))

\* a filter that lets the first id above the bound through
IncludedOffByOne(link) == NumLeq(evoId(link), Num(LETS_GO_MAX_POKEMON + 1))

\* link.evolution_details[0]?.min_level ?? null
minLevelOf(link) ==
  IF link.evolution_details = <<>> THEN Null
  ELSE link.evolution_details[1].min_level

\* a stage that carries the details of the link's first evolution instead of
\* the link's own
FlatEvolutionOutgoing(link) ==
  [name |-> link.species.name,
   url |-> link.species.url,
   minLevel |-> minLevelOf(link),
   details |-> IF link.evolves_to = <<>> THEN <<>>
               ELSE link.evolves_to[1].evolution_details]

\* the FlatEvolution pushed for a link
FlatEvolution(link) ==
  [name |-> link.species.name,
   url |-> link.species.url,
   minLevel |-> minLevelOf(link),
   details |-> link.evolution_details]

\* a filter that leaves out the id equal to the bound (< for <=)
IncludedStrict(link) ==
  ~evoId(link).nan /\ evoId(link).val < LETS_GO_MAX_POKEMON

\* if (evoId <= LETS_GO_MAX_POKEMON)
Included(link) == NumLeq(evoId(link), Num(LETS_GO_MAX_POKEMON))

\* a visit that puts the stage at the front of the array (unshift for push)
VisitUnshift(res, link) ==
  IF Included(link) THEN <<FlatEvolution(link)>> \o res ELSE res

\* the body of traverse up to the forEach: push the stage or not
Visit(res, link) ==
  IF Included(link) THEN Append(res, FlatEvolution(link)) ELSE res

\* a traversal that does not go below a link it left out
EvolvesToPruned(link) == IF Included(link) THEN link.evolves_to ELSE <<>>

\* the array whose entries forEach hands to traverse, whether or not the link
\* was pushed
EvolvesTo(link) == link.evolves_to

\* the frame of a call traverse(link); i is the index of the next entry of
\* link.evolves_to that forEach hands to traverse
Frame(link) == [link |-> link, i |-> 1]

Top == stack[Len(stack)]

\* the callee frames pushed on top of the caller, whose forEach index moves on
PushCall(stk, link) ==
  IF stk = <<>> THEN <<Frame(link)>>
  ELSE Append([stk EXCEPT ![Len(stk)].i = @ + 1], Frame(link))

FmtIdle ==
  /\ details = Null
  /\ label = [threw |-> FALSE, value |-> <<>>]
  /\ fpc = "idle"

\* the subsystems other than flattenEvolutionChain and
\* calculateTypeEffectiveness are not running
\* the ids the search offers
SearchResultIds == {25, 133}

NoFetches == [id \in SearchResultIds |-> 0]

\* no TeamBuilder is mounted
TeamIdle ==
  /\ team = <<>> /\ isHydrated = FALSE
  /\ searchQuery = <<>> /\ searchResults = <<>> /\ isSearching = FALSE
  /\ editingNickname = Null /\ nicknameInput = <<>>
  /\ stored = Null /\ storage = "ok"
  /\ effects = <<>> /\ fetches = NoFetches /\ searches = <<>>

NoOutcome == [kind |-> "none", message |-> <<>>]

\* no getPokemon, getPokemonSpecies or getMove is running
GetIdle ==
  /\ resource = "pokemon"
  /\ idOrName = [isNumber |-> TRUE, n |-> 0, s |-> <<>>]
  /\ status = 0 /\ fetched = NoOutcome /\ gpc = "idle"

\* no getPokemonList is running
ListIdle ==
  /\ pageParam = Null /\ limit = Num(0) /\ offset = Num(0)
  /\ clampedLimit = Num(0) /\ lpc = "idle"

\* no getLetsGoMoves is running
MovesIdle ==
  /\ pokemon = [moves |-> <<>>] /\ letsGoMoves = <<>>
  /\ mi = 0 /\ mpc = "idle"

\* no pagination strip is being rendered
StripIdle ==
  /\ totalPages = 0 /\ currentPage = 0
  /\ shownPages = <<>> /\ pageItems = <<>> /\ ppc = "idle"

LibIdle == GetIdle /\ ListIdle /\ MovesIdle /\ StripIdle

RestIdle == FmtIdle /\ TeamIdle /\ LibIdle

ExtIdle == returned = <<>> /\ RestIdle

EffIdle ==
  /\ typeDataList = <<>>
  /\ effectiveness = [t \in {} |-> <<1, 1>>]
  /\ ti = 0
  /\ phase = "idle"
  /\ k = 0
  /\ epc = "idle"

InitFlatten ==
  /\ \E sh \in Shapes :
       \E urls \in [ShapePaths(sh) -> Urls], dets \in [ShapePaths(sh) -> DetailLists] :
         chain = BuildChain(sh, <<>>, urls, dets)
  /\ stack = <<>>
  /\ result = <<>>
  /\ pc = "init"
  /\ EffIdle
  /\ ExtIdle

\* traverse(chain): the outermost call
TraverseRoot ==
  /\ pc = "init"
  /\ result' = Visit(result, chain)
  /\ stack' = PushCall(stack, chain)
  /\ pc' = "traverse"
  /\ UNCHANGED <<chain, effVars, extVars>>

\* link.evolves_to.forEach(traverse): the call for the next child
TraverseChild ==
  /\ pc = "traverse"
  /\ stack # <<>>
  /\ Top.i <= Len(EvolvesTo(Top.link))
  /\ LET child == EvolvesTo(Top.link)[Top.i]
     IN /\ result' = Visit(result, child)
        /\ stack' = PushCall(stack, child)
  /\ UNCHANGED <<chain, pc, effVars, extVars>>

\* a return that the outermost activation never takes
TraverseReturnAboveRoot ==
  /\ pc = "traverse"
  /\ Len(stack) > 1
  /\ Top.i > Len(EvolvesTo(Top.link))
  /\ stack' = SubSeq(stack, 1, Len(stack) - 1)
  /\ UNCHANGED <<chain, result, pc, effVars, extVars>>

\* forEach is through: traverse returns to its caller
TraverseReturn ==
  /\ pc = "traverse"
  /\ stack # <<>>
  /\ Top.i > Len(EvolvesTo(Top.link))
  /\ stack' = SubSeq(stack, 1, Len(stack) - 1)
  /\ UNCHANGED <<chain, result, pc, effVars, extVars>>

\* return result
FlattenReturn ==
  /\ pc = "traverse"
  /\ stack = <<>>
  /\ pc' = "done"
  /\ UNCHANGED <<chain, stack, result, effVars, extVars>>

NextFlatten == TraverseRoot \/ TraverseChild \/ TraverseReturn \/ FlattenReturn

SpecFlatten == InitFlatten /\ [][NextFlatten]_vars

\* The chains of every shape whose links have ids at or just above the bound
\* and no evolution details: whether the traversal ends depends on the shape
\* and on the filter only.
InitFlattenShapes ==
  /\ \E sh \in Shapes :
       \E urls \in [ShapePaths(sh) -> {UrlWithin, UrlAbove}] :
         chain = BuildChain(sh, <<>>, urls, [p \in ShapePaths(sh) |-> <<>>])
  /\ stack = <<>>
  /\ result = <<>>
  /\ pc = "init"
  /\ EffIdle
  /\ ExtIdle

\* The function is synchronous: once called it runs to completion, no step
\* that is possible is put off for ever.
SpecFlattenFair == InitFlattenShapes /\ [][NextFlatten]_vars /\ WF_vars(NextFlatten)

(***************************************************************************)
(* Properties of flattenEvolutionChain                                     *)
(***************************************************************************)
RECURSIVE Paths(_)
\* the positions of the links of a chain
Paths(link) ==
  {<<>>} \cup UNION { { <<c>> \o p : p \in Paths(link.evolves_to[c]) } :
                      c \in 1..Len(link.evolves_to) }

RECURSIVE LinkAt(_, _)
\* the link at a position of a chain
LinkAt(link, path) ==
  IF path = <<>> THEN link
  ELSE LinkAt(link.evolves_to[Head(path)], Tail(path))

\* p is a proper ancestor position of q
IsAncestor(p, q) == Len(p) < Len(q) /\ SubSeq(q, 1, Len(p)) = p

\* p comes before q in pre-order: an ancestor comes before its descendants,
\* and otherwise the subtree of the earlier sibling comes first
PreOrderBefore(p, q) ==
  \/ IsAncestor(p, q)
  \/ \E j \in 1..Len(p) :
       /\ j <= Len(q)
       /\ SubSeq(p, 1, j - 1) = SubSeq(q, 1, j - 1)
       /\ p[j] < q[j]

\* the pre-order listing of a set of positions
PreOrderListing(S) ==
  [j \in 1..Cardinality(S) |->
     CHOOSE p \in S : Cardinality({q \in S : PreOrderBefore(q, p)}) = j - 1]

ResultNames == [j \in 1..Len(result) |-> result[j].name]
ResultNameSet == {result[j].name : j \in 1..Len(result)}

\* C1: the returned sequence lists the emitted links in pre-order: the root
\* first, then the whole subtree of each child, in child order, before the
\* next sibling.
C1_PreOrder ==
  pc = "done" =>
    /\ ResultNameSet \subseteq Paths(chain)
    /\ ResultNames = PreOrderListing(ResultNameSet)

\* a chain whose first child has a child of its own and a later sibling, all
\* emitted: pre-order and level order differ
C1_Witness ==
  /\ pc = "done"
  /\ {<<>>, <<1>>, <<1, 1>>, <<2>>} \subseteq ResultNameSet

\* C2: no element of the output has an id, derived from its url, above
\* LETS_GO_MAX_POKEMON.
C2_NoneAboveBound ==
  \A j \in 1..Len(result) :
    ~NumGt(parseInt(PopOr(FilterBoolean(Split(result[j].url)), <<"0">>)),
           Num(LETS_GO_MAX_POKEMON))

\* a finished run over a chain holding a link above the bound and one within
C2_Witness ==
  /\ pc = "done"
  /\ result # <<>>
  /\ \E p \in Paths(chain) : LinkAt(chain, p).species.url = UrlAbove

\* the link at p has an id above the bound
AboveBound(p) == NumGt(evoId(LinkAt(chain, p)), Num(LETS_GO_MAX_POKEMON))

\* the link at p has an id within the bound
WithinBound(p) == NumLeq(evoId(LinkAt(chain, p)), Num(LETS_GO_MAX_POKEMON))

\* C3: a link left out for its id does not block the traversal: each of its
\* descendants whose id is within the bound is in the output, at its
\* pre-order position among the links within the bound.
C3_FilteredDoesNotBlock ==
  pc = "done" =>
    \A p \in Paths(chain) :
      (WithinBound(p) /\ \E q \in Paths(chain) : IsAncestor(q, p) /\ AboveBound(q)) =>
        LET pos == 1 + Cardinality({q \in Paths(chain) :
                                      WithinBound(q) /\ PreOrderBefore(q, p)})
        IN pos <= Len(result) /\ result[pos].name = p

\* a finished run in which a link within the bound, below a link above the
\* bound, was emitted
C3_Witness ==
  /\ pc = "done"
  /\ \E p \in ResultNameSet : \E q \in Paths(chain) : IsAncestor(q, p) /\ AboveBound(q)

\* the non-empty segments of a url
Segments(url) == FilterBoolean(Split(url))

\* the segment is an integer literal: an optional sign and digits only
IsIntegerLiteral(seg) ==
  LET body == IF seg # <<>> /\ seg[1] \in {"+", "-"} THEN Tail(seg) ELSE seg
  IN body # <<>> /\ \A j \in 1..Len(body) : body[j] \in Digits

\* the url has no trailing segment, or one that is not an integer
Malformed(url) == Segments(url) = <<>> \/ ~IsIntegerLiteral(Segments(url)[Len(Segments(url))])

\* C4: a link whose url has a missing trailing segment, or one that does not
\* parse as an integer, gets the id 0 and is therefore emitted.
C4_MalformedIsZero ==
  pc = "done" =>
    \A p \in Paths(chain) :
      Malformed(LinkAt(chain, p).species.url) =>
        /\ evoId(LinkAt(chain, p)) = Num(0)
        /\ p \in ResultNameSet

\* C5: every emitted stage carries exactly the evolution_details of its own
\* link; the root's stage has empty details when the root had none.
C5_OwnDetails ==
  /\ \A j \in 1..Len(result) :
       /\ result[j].name \in Paths(chain)
       /\ result[j].details = LinkAt(chain, result[j].name).evolution_details
  /\ (result # <<>> /\ result[1].name = <<>> /\ chain.evolution_details = <<>>) =>
       result[1].details = <<>>

\* a finished run that emitted a root without details and, below it, a link
\* with details whose own first evolution has none
C5_Witness ==
  /\ pc = "done"
  /\ <<>> \in ResultNameSet
  /\ chain.evolution_details = <<>>
  /\ \E j \in 1..Len(result) :
       /\ result[j].name # <<>>
       /\ result[j].details = <<LevelUp16>>
       /\ LinkAt(chain, result[j].name).evolves_to # <<>>
       /\ LinkAt(chain, result[j].name).evolves_to[1].evolution_details = <<>>

(***************************************************************************)
(* Exact arithmetic on multipliers: <<num, den>> in lowest terms, den > 0  *)
(***************************************************************************)
RECURSIVE GCD(_, _)
GCD(a, b) == IF b = 0 THEN a ELSE GCD(b, a % b)

Reduce(n, d) == IF n = 0 THEN <<0, 1>> ELSE <<n \div GCD(n, d), d \div GCD(n, d)>>

\* a * b
Mul(a, b) == Reduce(a[1] * b[1], a[2] * b[2])

Zero == <<0, 1>>
One == <<1, 1>>
Two == <<2, 1>>
Half == <<1, 2>>
Quarter == <<1, 4>>
Four == <<4, 1>>

(***************************************************************************)
(* Damage relation tables (types/pokemon.ts: TypeDamageRelations,          *)
(* PokemonTypeData).  Only damage_relations and its three *_from arrays    *)
(* are read by calculateTypeEffectiveness; an entry is a NamedAPIResource, *)
(* of which only the name is read.                                         *)
(***************************************************************************)
Resources(names) == [j \in 1..Len(names) |-> [name |-> names[j]]]

TypeData(double, half, no) ==
  [damage_relations |->
     [double_damage_from |-> Resources(double),
      half_damage_from |-> Resources(half),
      no_damage_from |-> Resources(no)]]

\* the attacking types of the generated tables
AttackTypes == {"electric", "grass"}

\* the arrays that list the members of S, in any order
Orderings(S) ==
  { q \in [1..Cardinality(S) -> S] : \A x \in S : \E j \in 1..Cardinality(S) : q[j] = x }

\* The tables the API can send over AttackTypes: every attacking type is in
\* at most one of the three arrays, once.
Tables ==
  UNION { { TypeData(d, h, n) :
              d \in Orderings({t \in AttackTypes : f[t] = "double"}),
              h \in Orderings({t \in AttackTypes : f[t] = "half"}),
              n \in Orderings({t \in AttackTypes : f[t] = "no"}) } :
          f \in [AttackTypes -> {"double", "half", "no", "neutral"}] }

\* the water and ground tables
WaterTable == TypeData(<<"grass", "electric">>, <<"steel", "fire", "water", "ice">>, <<>>)
GroundTable == TypeData(<<"water", "grass", "ice">>, <<"poison", "rock">>, <<"electric">>)

RECURSIVE SeqsUpTo(_, _)
\* the sequences over S of length at most n
SeqsUpTo(S, n) ==
  IF n = 0 THEN {<<>>}
  ELSE SeqsUpTo(S, n - 1) \cup
       { Append(q, x) : q \in { r \in SeqsUpTo(S, n - 1) : Len(r) = n - 1 }, x \in S }

\* the fire table
FireTable ==
  TypeData(<<"water", "ground", "rock">>,
           <<"fire", "grass", "ice", "bug", "steel", "fairy">>, <<>>)

TableLists ==
  SeqsUpTo(Tables, MaxTables)
    \cup {<<WaterTable, GroundTable>>, <<GroundTable, WaterTable>>, <<FireTable>>}

(***************************************************************************)
(* calculateTypeEffectiveness                                              *)
(***************************************************************************)
\* const effectiveness: Record<string, number> = {}
EmptyMap == [t \in {} |-> One]

\* effectiveness[name] = v
Put(eff, name, v) ==
  [t \in DOMAIN eff \cup {name} |-> IF t = name THEN v ELSE eff[t]]

\* a default that also replaces a stored 0 (|| for ??)
GetOrTruthy(eff, name) ==
  IF name \in DOMAIN eff /\ eff[name] # Zero THEN eff[name] ELSE One

\* effectiveness[name] ?? 1
Get(eff, name) == IF name \in DOMAIN eff THEN eff[name] ELSE One

\* a double-damage entry that counts four-fold
ApplyDoubleTwice(eff, name) == Put(eff, name, Mul(Mul(Get(eff, name), Two), Two))

\* effectiveness[name] = (effectiveness[name] ?? 1) * 2
ApplyDouble(eff, name) == Put(eff, name, Mul(Get(eff, name), Two))

\* a half-damage entry that divides by 0.5 instead of multiplying
ApplyHalfDivide(eff, name) == Put(eff, name, Mul(Get(eff, name), Two))

\* effectiveness[name] = (effectiveness[name] ?? 1) * 0.5
ApplyHalf(eff, name) == Put(eff, name, Mul(Get(eff, name), Half))

\* an immunity that removes the entry instead of storing 0
ApplyNoDelete(eff, name) == [t \in DOMAIN eff \ {name} |-> eff[t]]

\* effectiveness[name] = 0
ApplyNo(eff, name) == Put(eff, name, Zero)

\* the array the forEach of a phase runs over, for a table
PhaseList(typeData, ph) ==
  CASE ph = "double" -> typeData.damage_relations.double_damage_from
    [] ph = "half" -> typeData.damage_relations.half_damage_from
    [] ph = "no" -> typeData.damage_relations.no_damage_from

\* the callback of the forEach of a phase
Apply(ph, eff, name) ==
  CASE ph = "double" -> ApplyDouble(eff, name)
    [] ph = "half" -> ApplyHalf(eff, name)
    [] ph = "no" -> ApplyNo(eff, name)

RECURSIVE ForEach(_, _, _, _)
\* arr.slice(j - 1).forEach(callback of the phase), from the map eff
ForEach(ph, arr, j, eff) ==
  IF j > Len(arr) THEN eff
  ELSE ForEach(ph, arr, j + 1, Apply(ph, eff, arr[j].name))

\* one iteration of the for-of loop
ApplyTable(eff, typeData) ==
  LET d == ForEach("double", PhaseList(typeData, "double"), 1, eff)
      h == ForEach("half", PhaseList(typeData, "half"), 1, d)
  IN ForEach("no", PhaseList(typeData, "no"), 1, h)

RECURSIVE FoldTables(_, _, _)
FoldTables(list, j, eff) ==
  IF j > Len(list) THEN eff
  ELSE FoldTables(list, j + 1, ApplyTable(eff, list[j]))

\* the function as a whole: the map returned for a list of tables
calculateTypeEffectiveness(list) == FoldTables(list, 1, EmptyMap)

FlattenIdle ==
  /\ chain = <<>>
  /\ stack = <<>>
  /\ result = <<>>
  /\ pc = "idle"

InitEff ==
  /\ typeDataList \in TableLists
  /\ effectiveness = EmptyMap
  /\ ti = 1
  /\ phase = "double"
  /\ k = 1
  /\ epc = "loop"
  /\ FlattenIdle
  /\ ExtIdle

\* one callback of damage_relations.double_damage_from.forEach
DoubleEntry ==
  /\ epc = "loop" /\ ti <= Len(typeDataList) /\ phase = "double"
  /\ k <= Len(PhaseList(typeDataList[ti], "double"))
  /\ effectiveness' = ApplyDouble(effectiveness, PhaseList(typeDataList[ti], "double")[k].name)
  /\ k' = k + 1
  /\ UNCHANGED <<typeDataList, ti, phase, epc, flattenVars, extVars>>

\* one callback of damage_relations.half_damage_from.forEach
HalfEntry ==
  /\ epc = "loop" /\ ti <= Len(typeDataList) /\ phase = "half"
  /\ k <= Len(PhaseList(typeDataList[ti], "half"))
  /\ effectiveness' = ApplyHalf(effectiveness, PhaseList(typeDataList[ti], "half")[k].name)
  /\ k' = k + 1
  /\ UNCHANGED <<typeDataList, ti, phase, epc, flattenVars, extVars>>

\* one callback of damage_relations.no_damage_from.forEach
NoEntry ==
  /\ epc = "loop" /\ ti <= Len(typeDataList) /\ phase = "no"
  /\ k <= Len(PhaseList(typeDataList[ti], "no"))
  /\ effectiveness' = ApplyNo(effectiveness, PhaseList(typeDataList[ti], "no")[k].name)
  /\ k' = k + 1
  /\ UNCHANGED <<typeDataList, ti, phase, epc, flattenVars, extVars>>

\* a forEach is through: on to the next forEach of the table, or to the next
\* table after the last one
ForEachDone ==
  /\ epc = "loop" /\ ti <= Len(typeDataList)
  /\ k > Len(PhaseList(typeDataList[ti], phase))
  /\ phase' = CASE phase = "double" -> "half"
                [] phase = "half" -> "no"
                [] phase = "no" -> "double"
  /\ ti' = IF phase = "no" THEN ti + 1 ELSE ti
  /\ k' = 1
  /\ UNCHANGED <<typeDataList, effectiveness, epc, flattenVars, extVars>>

\* return effectiveness
EffReturn ==
  /\ epc = "loop" /\ ti > Len(typeDataList)
  /\ epc' = "done"
  /\ UNCHANGED <<typeDataList, effectiveness, ti, phase, k, flattenVars, extVars>>

NextEff == DoubleEntry \/ HalfEntry \/ NoEntry \/ ForEachDone \/ EffReturn

SpecEff == InitEff /\ [][NextEff]_vars

(***************************************************************************)
(* Properties of calculateTypeEffectiveness                                *)
(***************************************************************************)
\* the rearrangements of a list
Rearrangements(list) ==
  { [j \in 1..Len(list) |-> list[f[j]]] :
      f \in { g \in [1..Len(list) -> 1..Len(list)] :
                \A a, b \in 1..Len(list) : g[a] = g[b] => a = b } }

\* the names listed in an array of a table
NamesIn(typeData, ph) ==
  { PhaseList(typeData, ph)[j].name : j \in 1..Len(PhaseList(typeData, ph)) }

\* every attacking type the input mentions, and one it does not
MentionedTypes ==
  UNION { NamesIn(typeDataList[j], ph) :
            j \in 1..Len(typeDataList), ph \in {"double", "half", "no"} }
ProbedTypes == MentionedTypes \cup {"normal"}

\* C6: the result does not depend on the order of the tables: every
\* rearrangement of the input list gives the map (same keys, same values)
\* that the run over the list returned.
C6_OrderIndependent ==
  epc = "done" =>
    \A perm \in Rearrangements(typeDataList) :
      calculateTypeEffectiveness(perm) = effectiveness

\* a finished run over two different tables, one immune to a type the other
\* one is weak to
C6_Witness ==
  /\ epc = "done"
  /\ Len(typeDataList) = 2
  /\ typeDataList[1] # typeDataList[2]
  /\ \E t \in MentionedTypes :
       /\ t \in NamesIn(typeDataList[1], "no")
       /\ t \in NamesIn(typeDataList[2], "double")

\* a step keeps every multiplier that is 0
ZeroStays ==
  \A t \in DOMAIN effectiveness :
    effectiveness[t] = Zero => (t \in DOMAIN effectiveness' /\ effectiveness'[t] = Zero)

\* a table processed so far (all of them once the loop is over) lists t in
\* no_damage_from
ZeroedByEarlierTable(t) ==
  \E j \in 1..Len(typeDataList) : j < ti /\ t \in NamesIn(typeDataList[j], "no")

\* C7: zero dominance: a multiplier set to 0 by a table's no_damage_from
\* entry is never changed by a later double_damage_from or half_damage_from
\* entry, so it is 0 whenever a processed table lists the type as immune, and
\* 0 in the returned map.
C7_ZeroDominance ==
  /\ [][ZeroStays]_vars
  /\ [](\A t \in MentionedTypes :
          ZeroedByEarlierTable(t) => (t \in DOMAIN effectiveness /\ effectiveness[t] = Zero))

\* a finished run in which a later table's 2x or 0.5x entry met a multiplier
\* that an earlier table had set to 0
C7_Witness ==
  /\ epc = "done"
  /\ \E t \in MentionedTypes : \E a, b \in 1..Len(typeDataList) :
       /\ a < b
       /\ t \in NamesIn(typeDataList[a], "no")
       /\ t \in NamesIn(typeDataList[b], "double") \cup NamesIn(typeDataList[b], "half")
       /\ effectiveness[t] = Zero

\* the values of the returned map
ResultValues == { effectiveness[t] : t \in DOMAIN effectiveness }

\* C8: with at most two tables every value of the returned map is one of
\* 0, 0.25, 0.5, 1, 2, 4; with exactly one table, one of 0, 0.5, 1, 2.
C8_ValueSet ==
  epc = "done" =>
    /\ Len(typeDataList) <= 2 => ResultValues \subseteq {Zero, Quarter, Half, One, Two, Four}
    /\ Len(typeDataList) = 1 => ResultValues \subseteq {Zero, Half, One, Two}

\* finished runs reach both ends of the two-table range, 0.25 and 4
C8_Witness ==
  /\ epc = "done"
  /\ Len(typeDataList) = 2
  /\ {Quarter, Four} \subseteq ResultValues

\* the factor of one table for an attacking type
Factor(typeData, t) ==
  IF t \in NamesIn(typeData, "double") THEN Two
  ELSE IF t \in NamesIn(typeData, "half") THEN Half
  ELSE IF t \in NamesIn(typeData, "no") THEN Zero
  ELSE One

RECURSIVE FactorProduct(_, _, _)
\* the product of the factors of the tables from index j on
FactorProduct(list, j, t) ==
  IF j > Len(list) THEN One
  ELSE Mul(Factor(list[j], t), FactorProduct(list, j + 1, t))

\* C9: for any list of tables and any attacking type, the returned
\* multiplier (1 for an absent key) is the product of the per-table factors,
\* which is 0 as soon as one factor is 0.
C9_ProductOfFactors ==
  epc = "done" =>
    \A t \in ProbedTypes :
      /\ (IF t \in DOMAIN effectiveness THEN effectiveness[t] ELSE One)
           = FactorProduct(typeDataList, 1, t)
      /\ (\E j \in 1..Len(typeDataList) : Factor(typeDataList[j], t) = Zero)
           => (t \in DOMAIN effectiveness /\ effectiveness[t] = Zero)

\* a finished run over two tables with a 0 factor followed by a 2 factor for
\* the same type, and a type with no entry
C9_Witness ==
  /\ epc = "done"
  /\ Len(typeDataList) = 2
  /\ "normal" \notin DOMAIN effectiveness
  /\ \E t \in MentionedTypes :
       /\ Factor(typeDataList[1], t) = Zero
       /\ Factor(typeDataList[2], t) = Two

\* C10: water combined with ground, in either order, gives 4 for grass and
\* 0 for electric.
C10_WaterGround ==
  (epc = "done" /\ typeDataList \in {<<WaterTable, GroundTable>>, <<GroundTable, WaterTable>>}) =>
    /\ "grass" \in DOMAIN effectiveness /\ effectiveness["grass"] = Four
    /\ "electric" \in DOMAIN effectiveness /\ effectiveness["electric"] = Zero

\* the finished run over ground then water: water's 2x entry for electric
\* comes after ground's immunity
C10_Witness ==
  /\ epc = "done"
  /\ typeDataList = <<GroundTable, WaterTable>>
  /\ effectiveness["electric"] = Zero

\* C11: the fire table alone gives 2 for water, ground and rock, 0.5 for
\* fire, grass, ice, bug, steel and fairy, and no entry for any other type.
C11_Fire ==
  (epc = "done" /\ typeDataList = <<FireTable>>) =>
    /\ DOMAIN effectiveness =
         {"water", "ground", "rock", "fire", "grass", "ice", "bug", "steel", "fairy"}
    /\ \A t \in {"water", "ground", "rock"} : effectiveness[t] = Two
    /\ \A t \in {"fire", "grass", "ice", "bug", "steel", "fairy"} : effectiveness[t] = Half

\* the finished run over the fire table
C11_Witness ==
  /\ epc = "done"
  /\ typeDataList = <<FireTable>>
  /\ "fairy" \in DOMAIN effectiveness

(***************************************************************************)
(* formatEvolutionDetails and its string helpers (capitalize, the local    *)
(* humanize, template literals)                                            *)
(***************************************************************************)
MaxDetails == 2

\* c.toUpperCase() for one character
ToUpper(c) ==
  CASE c = "a" -> "A" [] c = "b" -> "B" [] c = "c" -> "C" [] c = "d" -> "D" []
    c = "e" -> "E" [] c = "f" -> "F" [] c = "g" -> "G" [] c = "h" -> "H" []
    c = "i" -> "I" [] c = "j" -> "J" [] c = "k" -> "K" [] c = "l" -> "L" []
    c = "m" -> "M" [] c = "n" -> "N" [] c = "o" -> "O" [] c = "p" -> "P" []
    c = "q" -> "Q" [] c = "r" -> "R" [] c = "s" -> "S" [] c = "t" -> "T" []
    c = "u" -> "U" [] c = "v" -> "V" [] c = "w" -> "W" [] c = "x" -> "X" []
    c = "y" -> "Y" [] c = "z" -> "Z"
    [] OTHER -> c

\* capitalize(str): "" for an empty string, else the first character in
\* upper case followed by the rest unchanged
capitalize(str) ==
  IF str = <<>> THEN <<>> ELSE <<ToUpper(str[1])>> \o Tail(str)

\* name.replace(/-/g, " ")
ReplaceHyphens(name) ==
  [j \in 1..Len(name) |-> IF name[j] = "-" THEN " " ELSE name[j]]

\* humanize(name) = capitalize(name.replace(/-/g, " "))
humanize(name) == capitalize(ReplaceHyphens(name))

DigitChar(n) ==
  CASE n = 0 -> "0" [] n = 1 -> "1" [] n = 2 -> "2" [] n = 3 -> "3"
    [] n = 4 -> "4" [] n = 5 -> "5" [] n = 6 -> "6" [] n = 7 -> "7"
    [] n = 8 -> "8" [] n = 9 -> "9"

RECURSIVE NumberToString(_)
\* `${n}` for a non-negative integer
NumberToString(n) ==
  IF n < 10 THEN <<DigitChar(n)>>
  ELSE Append(NumberToString(n \div 10), DigitChar(n % 10))

\* the value of a nullable field that is not null
ValueOf(x) == CHOOSE v \in x : TRUE

\* if (x) for a nullable number: null and 0 are falsy
TruthyNumber(x) == x # Null /\ ValueOf(x) # 0

\* if (x) for a string: "" is falsy
TruthyString(x) == x # <<>>

\* if (x) for a nullable object: null is falsy
TruthyObject(x) == x # Null

Return(str) == [threw |-> FALSE, value |-> str]
\* reading a property of undefined throws a TypeError
Throw == [threw |-> TRUE, value |-> <<>>]

StrLv == <<"L", "v", ".", " ">>
\* the character U+2265 (greater-than or equal to) of the happiness label
CharGeq == "U+2265"
StrHappiness == <<"H", "a", "p", "p", "i", "n", "e", "s", "s", " ", CharGeq, " ">>
StrTradeHolding == <<"T", "r", "a", "d", "e", " ", "h", "o", "l", "d", "i", "n", "g", " ">>

\* a guard that lets an empty array through
NoDetailsNullOnly(dets) == dets = Null

\* !details || details.length === 0
NoDetails(dets) == dets = Null \/ ValueOf(dets) = <<>>

\* a choice of the last entry instead of the first
LastDetail(list) == list[Len(list)]

\* const d = details[0]
FirstDetail(list) == list[1]

\* a level-up branch that looks at the happiness before the level
LevelUpLabelHappinessFirst(d) ==
  IF TruthyNumber(d.min_happiness)
    THEN StrHappiness \o NumberToString(ValueOf(d.min_happiness))
  ELSE IF TruthyNumber(d.min_level)
    THEN StrLv \o NumberToString(ValueOf(d.min_level))
  ELSE IF TruthyString(d.time_of_day) THEN capitalize(d.time_of_day)
  ELSE IF TruthyObject(d.location) THEN capitalize(ValueOf(d.location).name)
  ELSE humanize(d.trigger.name)

\* case "level-up", with the fallback after the switch that its break leads to
LevelUpLabel(d) ==
  IF TruthyNumber(d.min_level)
    THEN StrLv \o NumberToString(ValueOf(d.min_level))
  ELSE IF TruthyNumber(d.min_happiness)
    THEN StrHappiness \o NumberToString(ValueOf(d.min_happiness))
  ELSE IF TruthyString(d.time_of_day) THEN capitalize(d.time_of_day)
  ELSE IF TruthyObject(d.location) THEN capitalize(ValueOf(d.location).name)
  ELSE humanize(d.trigger.name)

\* case "use-item", with the fallback after the switch
UseItemLabel(d) ==
  IF TruthyObject(d.item) THEN humanize(ValueOf(d.item).name)
  ELSE humanize(d.trigger.name)

\* case "trade"
TradeLabel(d) ==
  IF TruthyObject(d.held_item)
    THEN StrTradeHolding \o humanize(ValueOf(d.held_item).name)
  ELSE <<"T", "r", "a", "d", "e">>

\* the function as a whole; details[0] of an empty array is undefined, and
\* reading its trigger throws
formatEvolutionDetails(dets) ==
  IF NoDetails(dets) THEN Return(<<>>)
  ELSE IF ValueOf(dets) = <<>> THEN Throw
  ELSE LET d == FirstDetail(ValueOf(dets))
       IN Return(CASE d.trigger.name = StrLevelUp -> LevelUpLabel(d)
                   [] d.trigger.name = StrUseItem -> UseItemLabel(d)
                   [] d.trigger.name = StrTrade -> TradeLabel(d)
                   [] OTHER -> humanize(d.trigger.name))

\* the first entries the function is run on
FirstDetails ==
  [trigger : { [name |-> t] : t \in {StrLevelUp, StrUseItem, StrTrade, StrShed, StrTakeDamage} },
   item : {Null, Some([name |-> StrThunderStone])},
   min_level : {Null, Some(16)},
   min_happiness : {Null, Some(220)},
   time_of_day : {<<>>, StrNight},
   held_item : {Null, Some([name |-> StrMetalCoat])},
   known_move : {Null},
   location : {Null, Some([name |-> StrMtCoronet])}]

UseThunderStone ==
  [trigger |-> [name |-> StrUseItem], item |-> Some([name |-> StrThunderStone]),
   min_level |-> Null, min_happiness |-> Null, time_of_day |-> <<>>,
   held_item |-> Null, known_move |-> Null, location |-> Null]

TradeMetalCoat ==
  [trigger |-> [name |-> StrTrade], item |-> Null,
   min_level |-> Null, min_happiness |-> Null, time_of_day |-> <<>>,
   held_item |-> Some([name |-> StrMetalCoat]), known_move |-> Null, location |-> Null]

\* the entries after the first
LaterDetails == {LevelUp16, UseThunderStone, TradeMetalCoat}

\* the arguments: no array, the empty array, and the arrays of 1..MaxDetails
\* entries
DetailArgs ==
  {Null, Some(<<>>)} \cup
  { Some(<<f>> \o rest) : f \in FirstDetails, rest \in SeqsUpTo(LaterDetails, MaxDetails - 1) }

InitFmt ==
  /\ details \in DetailArgs
  /\ label = Return(<<>>)
  /\ fpc = "init"
  /\ FlattenIdle
  /\ EffIdle
  /\ returned = <<>>
  /\ TeamIdle
  /\ LibIdle

\* one call of formatEvolutionDetails(details)
Format ==
  /\ fpc = "init"
  /\ label' = formatEvolutionDetails(details)
  /\ fpc' = "done"
  /\ UNCHANGED <<details, flattenVars, effVars, callVars, teamVars, libVars>>

NextFmt == Format

SpecFmt == InitFmt /\ [][NextFmt]_vars

(***************************************************************************)
(* Properties of formatEvolutionDetails                                    *)
(***************************************************************************)
\* the first entry of the argument of a finished call on a non-empty array
HasFirst == fpc = "done" /\ details # Null /\ ValueOf(details) # <<>>
First == ValueOf(details)[1]

\* C12: "Lv. 16" for level-up at level 16, "Thunder Stone" for use-item with
\* thunder-stone, "Trade" for trade without held item, "Trade holding Metal
\* Coat" for trade holding metal-coat.
C12_Literals ==
  HasFirst =>
    /\ (First.trigger.name = StrLevelUp /\ First.min_level = Some(16))
         => label = Return(<<"L", "v", ".", " ", "1", "6">>)
    /\ (First.trigger.name = StrUseItem /\ First.item = Some([name |-> StrThunderStone]))
         => label = Return(<<"T", "h", "u", "n", "d", "e", "r", " ", "S", "t", "o", "n", "e">>)
    /\ (First.trigger.name = StrTrade /\ First.held_item = Null)
         => label = Return(<<"T", "r", "a", "d", "e">>)
    /\ (First.trigger.name = StrTrade /\ First.held_item = Some([name |-> StrMetalCoat]))
         => label = Return(<<"T", "r", "a", "d", "e", " ", "h", "o", "l", "d", "i", "n", "g", " ", "M", "e", "t", "a", "l", " ", "C", "o", "a", "t">>)

\* C13: for a level-up first entry the label is chosen by strict priority:
\* the level, else the happiness, else the time of day, else the location,
\* else the trigger name; a lower qualifier never shows when a higher one is
\* specified.
C13_LevelUpPriority ==
  (HasFirst /\ First.trigger.name = StrLevelUp) =>
    /\ First.min_level # Null
         => label = Return(StrLv \o NumberToString(ValueOf(First.min_level)))
    /\ (First.min_level = Null /\ First.min_happiness # Null)
         => label = Return(StrHappiness \o NumberToString(ValueOf(First.min_happiness)))
    /\ (First.min_level = Null /\ First.min_happiness = Null /\ First.time_of_day # <<>>)
         => label = Return(<<"N", "i", "g", "h", "t">>)
    /\ (First.min_level = Null /\ First.min_happiness = Null /\ First.time_of_day = <<>>
          /\ First.location # Null)
         => label = Return(<<"M", "t", "-", "c", "o", "r", "o", "n", "e", "t">>)
    /\ (First.min_level = Null /\ First.min_happiness = Null /\ First.time_of_day = <<>>
          /\ First.location = Null)
         => label = Return(<<"L", "e", "v", "e", "l", " ", "u", "p">>)

\* a finished call on a level-up entry that specifies both a level and a
\* happiness, a time of day and a location
C13_Witness ==
  /\ HasFirst
  /\ First.trigger.name = StrLevelUp
  /\ First.min_level # Null /\ First.min_happiness # Null
  /\ First.time_of_day # <<>> /\ First.location # Null
  /\ label = Return(<<"L", "v", ".", " ", "1", "6">>)

\* the humanized form of a name, position by position: hyphens are spaces and
\* the first character of the phrase is in upper case
IsHumanized(str, name) ==
  /\ Len(str) = Len(name)
  /\ \A j \in 1..Len(name) :
       str[j] = IF name[j] = "-" THEN " "
                ELSE IF j = 1 THEN ToUpper(name[j]) ELSE name[j]

\* C14: the label depends only on the first entry: it is the label of the
\* one-entry array holding that entry; and for a trigger other than
\* level-up, use-item and trade it is the humanized trigger name.
C14_FirstEntryOnly ==
  HasFirst =>
    /\ label = formatEvolutionDetails(Some(<<First>>))
    /\ First.trigger.name \notin {StrLevelUp, StrUseItem, StrTrade}
         => (~label.threw /\ IsHumanized(label.value, First.trigger.name))

\* a finished call on two entries with different triggers, the first one
\* being neither level-up, use-item nor trade
C14_Witness ==
  /\ HasFirst
  /\ Len(ValueOf(details)) = 2
  /\ First.trigger.name = StrTakeDamage
  /\ ValueOf(details)[2] = LevelUp16
  /\ label = Return(<<"T", "a", "k", "e", " ", "d", "a", "m", "a", "g", "e">>)

\* C15: the label of an empty or absent array is the empty string, and the
\* call does not throw.
C15_EmptyLabel ==
  (fpc = "done" /\ (details = Null \/ details = Some(<<>>))) =>
    label = Return(<<>>)

\* the finished call on the empty array
C15_Witness ==
  /\ fpc = "done"
  /\ details = Some(<<>>)
  /\ ~label.threw

(***************************************************************************)
(* Further properties of flattenEvolutionChain                             *)
(***************************************************************************)
\* C16: for a root without children the result is the one-element sequence
\* holding the root when the root's id is within the bound, and the empty
\* sequence when it is above the bound.
C16_ChildlessRoot ==
  (pc = "done" /\ chain.evolves_to = <<>>) =>
    /\ WithinBound(<<>>) =>
         /\ Len(result) = 1
         /\ result[1].name = chain.species.name
         /\ result[1].url = chain.species.url
    /\ AboveBound(<<>>) => result = <<>>

\* the finished run over a childless root whose id is the bound itself
C16_Witness ==
  /\ pc = "done"
  /\ chain.evolves_to = <<>>
  /\ chain.species.url = UrlWithin
  /\ Len(result) = 1

\* C18: the traversal of every finite chain terminates and returns.
C18_Terminates == <>(pc = "done")

\* a finished run over a chain of the largest size, whose last activation
\* returned from a link without children
C18_Witness ==
  /\ pc = "done"
  /\ Cardinality(Paths(chain)) = MaxNodes
  /\ stack = <<>>

(***************************************************************************)
(* Callers of the two functions: any sequence of calls, each one run to    *)
(* its return before the next one starts (both functions are synchronous)  *)
(***************************************************************************)
MaxCalls == 2

\* the chains handed over by the callers
CallChains ==
  UNION { { BuildChain(sh, <<>>, urls, [p \in ShapePaths(sh) |-> <<>>]) :
              urls \in [ShapePaths(sh) -> {UrlWithin, UrlAbove}] } :
          sh \in {<<>>, <<<<>>>>} }

\* the table lists handed over by the callers
CallTableLists == {<<>>, <<FireTable>>, <<WaterTable>>, <<GroundTable, WaterTable>>}

\* a result array that lives on from one call to the next
NewResultShared(old) == old

\* const result: FlatEvolution[] = [] : every call starts from a new array
NewResult(old) == <<>>

\* const effectiveness: Record<string, number> = {} : every call starts from
\* a new record
NewEffectiveness(old) == EmptyMap

\* no call is in progress
NoCallRunning == pc \in {"idle", "done"} /\ epc \in {"idle", "done"}

InitCalls ==
  /\ FlattenIdle
  /\ EffIdle
  /\ returned = <<>>
  /\ RestIdle

\* a caller calls flattenEvolutionChain(c)
CallFlatten ==
  /\ NoCallRunning /\ pc = "idle"
  /\ Len(returned) < MaxCalls
  /\ \E c \in CallChains : chain' = c
  /\ result' = NewResult(result)
  /\ stack' = <<>>
  /\ pc' = "init"
  /\ UNCHANGED <<effVars, callVars, restVars>>

\* the caller has the returned array
CollectFlatten ==
  /\ pc = "done"
  /\ returned' = Append(returned, [fn |-> "flatten", input |-> chain, output |-> result])
  /\ pc' = "idle"
  /\ UNCHANGED <<chain, stack, result, effVars, restVars>>

\* a caller calls calculateTypeEffectiveness(list)
CallEff ==
  /\ NoCallRunning /\ epc = "idle"
  /\ Len(returned) < MaxCalls
  /\ \E list \in CallTableLists : typeDataList' = list
  /\ effectiveness' = NewEffectiveness(effectiveness)
  /\ ti' = 1
  /\ phase' = "double"
  /\ k' = 1
  /\ epc' = "loop"
  /\ UNCHANGED <<flattenVars, callVars, restVars>>

\* the caller has the returned map
CollectEff ==
  /\ epc = "done"
  /\ returned' = Append(returned, [fn |-> "eff", input |-> typeDataList, output |-> effectiveness])
  /\ epc' = "idle"
  /\ UNCHANGED <<typeDataList, effectiveness, ti, phase, k, flattenVars, restVars>>

NextCalls ==
  \/ CallFlatten \/ CollectFlatten \/ CallEff \/ CollectEff
  \/ NextFlatten \/ NextEff

SpecCalls == InitCalls /\ [][NextCalls]_vars

RECURSIVE TraverseFrom(_, _), TraverseEach(_, _, _)
\* traverse(link) on the array res
TraverseFrom(res, link) == TraverseEach(Visit(res, link), EvolvesTo(link), 1)

\* arr.slice(j - 1).forEach(traverse) on the array res
TraverseEach(res, arr, j) ==
  IF j > Len(arr) THEN res
  ELSE TraverseEach(TraverseFrom(res, arr[j]), arr, j + 1)

\* flattenEvolutionChain as a whole: the array returned for a chain
flattenEvolutionChain(c) == TraverseFrom(<<>>, c)

\* what a call on the input alone returns
FreshOutput(call) ==
  IF call.fn = "flatten" THEN flattenEvolutionChain(call.input)
  ELSE calculateTypeEffectiveness(call.input)

\* a step of a running call leaves the call's input as it is
InputsKept ==
  /\ pc \in {"init", "traverse"} => chain' = chain
  /\ epc = "loop" => typeDataList' = typeDataList

\* a step leaves every result returned so far as it is
ReturnedKept ==
  /\ Len(returned') >= Len(returned)
  /\ \A j \in 1..Len(returned) : returned'[j] = returned[j]

\* C17: the two functions leave their inputs unchanged and keep no state
\* between calls: a running call never changes its input, a result once
\* returned is never changed by a later call, and every call returns what a
\* call on its input alone returns, whatever calls came before.
C17_NoSharedState ==
  /\ [][InputsKept /\ ReturnedKept]_vars
  /\ [](\A j \in 1..Len(returned) : returned[j].output = FreshOutput(returned[j]))
  /\ [](pc = "done" => result = flattenEvolutionChain(chain))
  /\ [](epc = "done" => effectiveness = calculateTypeEffectiveness(typeDataList))

\* two calls of flattenEvolutionChain in a row, the first of which returned
\* a non-empty array, and the second of which returned fewer stages
C17_Witness ==
  /\ Len(returned) = 2
  /\ returned[1].fn = "flatten" /\ returned[2].fn = "flatten"
  /\ Len(returned[1].output) = 2
  /\ Len(returned[2].output) = 1

(***************************************************************************)
(* TeamBuilder (components/Teambuilder.tsx): the team, its search box, the *)
(* nickname editor and the two effects that load and save the team.        *)
(*                                                                         *)
(* A member is [id, nickname]; name and sprite are functions of the id,    *)
(* types and addedAt are data no handler reads.  An effect waiting to run  *)
(* carries the team and isHydrated of the render that scheduled it (its    *)
(* closure).  React runs the effects of a commit before it renders again,  *)
(* so a handler's state update finds no effect waiting.                    *)
(***************************************************************************)
MAX_TEAM_SIZE == 6

\* addToTeam calls that may wait for their fetch at the same time
MaxInFlight == 4

\* handleSearch calls that may wait for searchPokemon at the same time
MaxSearches == 1

otherVars == <<flattenVars, effVars, callVars, fmtVars, libVars>>

\* what the user types into the search box
Queries == {<<>>, <<"e">>}

\* what the user types into the nickname input
NicknameInputs == {<<" ">>, <<"a", " ">>}

RECURSIVE TrimStart(_)
TrimStart(str) ==
  IF str # <<>> /\ Head(str) = " " THEN TrimStart(Tail(str)) ELSE str

RECURSIVE TrimEnd(_)
TrimEnd(str) ==
  IF str # <<>> /\ str[Len(str)] = " "
  THEN TrimEnd(SubSeq(str, 1, Len(str) - 1)) ELSE str

\* String.prototype.trim
Trim(str) == TrimEnd(TrimStart(str))

\* arr.slice(0, n)
SliceTo(arr, n) == SubSeq(arr, 1, IF Len(arr) < n THEN Len(arr) ELSE n)

RECURSIVE FilterOut(_, _)
\* prev.filter((m) => m.id !== pokemonId)
FilterOut(prev, pokemonId) ==
  IF prev = <<>> THEN <<>>
  ELSE IF Head(prev).id # pokemonId
       THEN <<Head(prev)>> \o FilterOut(Tail(prev), pokemonId)
       ELSE FilterOut(Tail(prev), pokemonId)

\* team.some((m) => m.id === pokemonId)
OnTeam(t, pokemonId) == \E j \in 1..Len(t) : t[j].id = pokemonId

\* the members the slot grid renders: team[0] .. team[MAX_TEAM_SIZE - 1]
Rendered(t) == 1..(IF Len(t) < MAX_TEAM_SIZE THEN Len(t) ELSE MAX_TEAM_SIZE)

\* nicknameInput.trim() || undefined
NicknameOf(input) == IF TruthyString(Trim(input)) THEN Some(Trim(input)) ELSE Null

\* prev.map((m) => m.id === pokemonId ? {...m, nickname: ...} : m)
WithNickname(prev, pokemonId, input) ==
  [j \in 1..Len(prev) |->
     IF prev[j].id = pokemonId
     THEN [prev[j] EXCEPT !.nickname = NicknameOf(input)]
     ELSE prev[j]]

\* the member addToTeam builds
NewMember(pokemonId) == [id |-> pokemonId, nickname |-> Null]

\* JSON.stringify of one member: a key whose value is undefined is left out
StringifyMember(m) ==
  IF m.nickname = Null THEN [id |-> m.id]
  ELSE [id |-> m.id, nickname |-> ValueOf(m.nickname)]

\* JSON.stringify(team)
JSONstringify(t) ==
  [kind |-> "json", items |-> [j \in 1..Len(t) |-> StringifyMember(t[j])]]

ParseMember(o) ==
  [id |-> o.id,
   nickname |-> IF "nickname" \in DOMAIN o THEN Some(o.nickname) ELSE Null]

\* JSON.parse(text): the team, or a SyntaxError for a text that is not JSON
JSONparse(text) ==
  IF text.kind = "json"
  THEN Return([j \in 1..Len(text.items) |-> ParseMember(text.items[j])])
  ELSE Throw

\* searchPokemon(query): the ids of the matching names
searchPokemon(query) ==
  IF Trim(query) = <<>> THEN <<>> ELSE <<25, 133>>

LoadEntry == [fx |-> "load", team |-> <<>>, isHydrated |-> FALSE]

SaveEntry(t, h) == [fx |-> "save", team |-> t, isHydrated |-> h]

\* a commit after setTeam or setIsHydrated: the dependencies [team,
\* isHydrated] of the save effect changed (a new array is a new dependency),
\* so the effect is scheduled with the new render's values
Commit(q, t, h, hydratedBefore) == Append(q, SaveEntry(t, h))

\* the first render of a mounted TeamBuilder: both effects are scheduled
MountEffects == <<LoadEntry, SaveEntry(<<>>, FALSE)>>

InFlight == fetches[25] + fetches[133]

InitTeam ==
  /\ team = <<>> /\ isHydrated = FALSE
  /\ searchQuery = <<>> /\ searchResults = <<>> /\ isSearching = FALSE
  /\ editingNickname = Null /\ nicknameInput = <<>>
  /\ stored \in {Null, Some(JSONstringify(<<>>))}
  /\ storage \in {"ok", "full"}
  /\ effects = MountEffects
  /\ fetches = NoFetches /\ searches = <<>>
  /\ FlattenIdle /\ EffIdle /\ FmtIdle /\ returned = <<>> /\ LibIdle

\* the empty string and a text that is not JSON
EmptyText == [kind |-> "empty", items |-> <<>>]
CorruptText == [kind |-> "corrupt", items |-> <<>>]

\* a team stored by an earlier visit
StoredTeam == <<[id |-> 25, nickname |-> Some(<<"z">>)]>>

\* what localStorage may hold at mount
StoredValues ==
  {Null, Some(EmptyText), Some(CorruptText), Some(JSONstringify(<<>>)),
   Some(JSONstringify(StoredTeam))}

\* the stored value and the state of localStorage at mount: any stored value
\* with a localStorage that works, a stored team with one that is full
\* (setItem throws) or refuses access (getItem and setItem throw)
MountCases ==
  {[stored |-> v, storage |-> "ok"] : v \in StoredValues}
  \cup {[stored |-> Some(JSONstringify(StoredTeam)), storage |-> m] :
          m \in {"full", "denied"}}

\* a mount of the TeamBuilder in one of these cases
InitTeamStored ==
  /\ team = <<>> /\ isHydrated = FALSE
  /\ searchQuery = <<>> /\ searchResults = <<>> /\ isSearching = FALSE
  /\ editingNickname = Null /\ nicknameInput = <<>>
  /\ \E c \in MountCases : stored = c.stored /\ storage = c.storage
  /\ effects = MountEffects
  /\ fetches = NoFetches /\ searches = <<>>
  /\ FlattenIdle /\ EffIdle /\ FmtIdle /\ returned = <<>> /\ LibIdle

\* what the load effect's try block does: the team it sets
Loaded ==
  IF storage = "denied" THEN Throw
  ELSE IF stored = Null \/ ValueOf(stored).kind = "empty" THEN Return(team)
  ELSE JSONparse(ValueOf(stored))

\* a load effect that sets isHydrated at the end of its try block
HydratedIfLoaded(threw) == ~threw

\* finally { setIsHydrated(true) } : whether or not the try block threw
HydratedAfterLoad(threw) == TRUE

\* the load effect (runs once, after the first render); what the try block
\* throws is caught, and the team is left as it is
LoadEffect ==
  /\ effects # <<>> /\ Head(effects).fx = "load"
  /\ team' = IF Loaded.threw THEN team ELSE Loaded.value
  /\ isHydrated' = HydratedAfterLoad(Loaded.threw)
  /\ effects' = Commit(Tail(effects), team', isHydrated', isHydrated)
  /\ UNCHANGED <<searchQuery, searchResults, isSearching, editingNickname,
                 nicknameInput, stored, storage, fetches, searches, otherVars>>

\* a save effect without its first line
MayWriteAlways(entry) == TRUE

\* if (!isHydrated) return : the isHydrated of the effect's own render
MayWrite(entry) == entry.isHydrated

\* the save effect of one commit; a setItem that throws is caught
SaveEffect ==
  /\ effects # <<>> /\ Head(effects).fx = "save"
  /\ stored' = IF MayWrite(Head(effects)) /\ storage = "ok"
               THEN Some(JSONstringify(Head(effects).team))
               ELSE stored
  /\ effects' = Tail(effects)
  /\ UNCHANGED <<team, isHydrated, searchQuery, searchResults, isSearching,
                 editingNickname, nicknameInput, storage, fetches, searches,
                 otherVars>>

\* the user can use the controls: the skeleton is gone and the nickname
\* input, which saves on blur, does not have the focus
Interactive == isHydrated /\ effects = <<>> /\ editingNickname = Null

\* handleSearch(query) up to its await
HandleSearch ==
  /\ Interactive
  /\ Len(team) < MAX_TEAM_SIZE
  /\ \E query \in Queries :
       /\ searchQuery' = query
       /\ IF Trim(query) = <<>>
          THEN /\ searchResults' = <<>>
               /\ UNCHANGED <<isSearching, searches>>
          ELSE /\ Len(searches) < MaxSearches
               /\ isSearching' = TRUE
               /\ searches' = Append(searches, query)
               /\ UNCHANGED searchResults
  /\ UNCHANGED <<team, isHydrated, editingNickname, nicknameInput, stored,
                 storage, effects, fetches, otherVars>>

RemoveAt(arr, j) == SubSeq(arr, 1, j - 1) \o SubSeq(arr, j + 1, Len(arr))

\* handleSearch after its await: searchPokemon returned
SearchResolve ==
  /\ effects = <<>>
  /\ \E j \in 1..Len(searches) :
       /\ searchResults' = SliceTo(searchPokemon(searches[j]), 8)
       /\ searches' = RemoveAt(searches, j)
  /\ isSearching' = FALSE
  /\ UNCHANGED <<team, isHydrated, searchQuery, editingNickname,
                 nicknameInput, stored, storage, effects, fetches, otherVars>>

\* handleSearch after its await: searchPokemon threw
SearchFail ==
  /\ effects = <<>>
  /\ \E j \in 1..Len(searches) : searches' = RemoveAt(searches, j)
  /\ isSearching' = FALSE
  /\ UNCHANGED <<team, isHydrated, searchQuery, searchResults,
                 editingNickname, nicknameInput, stored, storage, effects,
                 fetches, otherVars>>

\* a click on a search result: addToTeam(id, name) up to its await
AddToTeam ==
  /\ Interactive
  /\ Len(team) < MAX_TEAM_SIZE
  /\ InFlight < MaxInFlight
  /\ \E j \in 1..Len(searchResults) :
       LET pokemonId == searchResults[j] IN
       /\ ~OnTeam(team, pokemonId)
       /\ ~(Len(team) >= MAX_TEAM_SIZE)
       /\ fetches' = [fetches EXCEPT ![pokemonId] = @ + 1]
  /\ UNCHANGED <<team, isHydrated, searchQuery, searchResults, isSearching,
                 editingNickname, nicknameInput, stored, storage, effects,
                 searches, otherVars>>

\* addToTeam after its awaits: the member is appended to the current team
AddResolve ==
  /\ effects = <<>>
  /\ \E pokemonId \in SearchResultIds :
       /\ fetches[pokemonId] > 0
       /\ fetches' = [fetches EXCEPT ![pokemonId] = @ - 1]
       /\ team' = Append(team, NewMember(pokemonId))
  /\ searchQuery' = <<>>
  /\ searchResults' = <<>>
  /\ effects' = Commit(effects, team', isHydrated, isHydrated)
  /\ UNCHANGED <<isHydrated, isSearching, editingNickname, nicknameInput,
                 stored, storage, searches, otherVars>>

\* addToTeam after its await: fetch or res.json() rejected
AddFail ==
  /\ \E pokemonId \in SearchResultIds :
       /\ fetches[pokemonId] > 0
       /\ fetches' = [fetches EXCEPT ![pokemonId] = @ - 1]
  /\ UNCHANGED <<team, isHydrated, searchQuery, searchResults, isSearching,
                 editingNickname, nicknameInput, stored, storage, effects,
                 searches, otherVars>>

\* a click on a member's remove button
RemoveFromTeam ==
  /\ Interactive
  /\ \E j \in Rendered(team) : team' = FilterOut(team, team[j].id)
  /\ effects' = Commit(effects, team', isHydrated, isHydrated)
  /\ UNCHANGED <<isHydrated, searchQuery, searchResults, isSearching,
                 editingNickname, nicknameInput, stored, storage, fetches,
                 searches, otherVars>>

\* a click on a member's name opens the nickname input
StartEdit ==
  /\ Interactive
  /\ \E j \in Rendered(team) :
       /\ editingNickname' = Some(team[j].id)
       /\ nicknameInput' = IF team[j].nickname = Null THEN <<>>
                           ELSE ValueOf(team[j].nickname)
  /\ UNCHANGED <<team, isHydrated, searchQuery, searchResults, isSearching,
                 stored, storage, effects, fetches, searches, otherVars>>

\* the nickname input is shown
Editing ==
  /\ isHydrated /\ effects = <<>> /\ editingNickname # Null
  /\ \E j \in Rendered(team) : team[j].id = ValueOf(editingNickname)

\* the user types into the nickname input
TypeNickname ==
  /\ Editing
  /\ \E text \in NicknameInputs : nicknameInput' = text
  /\ UNCHANGED <<team, isHydrated, searchQuery, searchResults, isSearching,
                 editingNickname, stored, storage, effects, fetches, searches,
                 otherVars>>

\* blur or Enter in the nickname input: saveNickname(member.id)
SaveNickname ==
  /\ Editing
  /\ team' = WithNickname(team, ValueOf(editingNickname), nicknameInput)
  /\ editingNickname' = Null
  /\ nicknameInput' = <<>>
  /\ effects' = Commit(effects, team', isHydrated, isHydrated)
  /\ UNCHANGED <<isHydrated, searchQuery, searchResults, isSearching, stored,
                 storage, fetches, searches, otherVars>>

\* Escape in the nickname input
CancelEdit ==
  /\ Editing
  /\ editingNickname' = Null
  /\ UNCHANGED <<team, isHydrated, searchQuery, searchResults, isSearching,
                 nicknameInput, stored, storage, effects, fetches, searches,
                 otherVars>>

\* a click on "Clear team", confirmed
ClearTeam ==
  /\ Interactive
  /\ Len(team) > 0
  /\ team' = <<>>
  /\ effects' = Commit(effects, team', isHydrated, isHydrated)
  /\ UNCHANGED <<isHydrated, searchQuery, searchResults, isSearching,
                 editingNickname, nicknameInput, stored, storage, fetches,
                 searches, otherVars>>

\* the page is loaded again: a new TeamBuilder is mounted, the requests of
\* the old one are gone, localStorage stays
Reload ==
  /\ team' = <<>> /\ isHydrated' = FALSE
  /\ searchQuery' = <<>> /\ searchResults' = <<>> /\ isSearching' = FALSE
  /\ editingNickname' = Null /\ nicknameInput' = <<>>
  /\ effects' = MountEffects
  /\ fetches' = NoFetches /\ searches' = <<>>
  /\ UNCHANGED <<stored, storage, otherVars>>

NextTeam ==
  \/ LoadEffect \/ SaveEffect
  \/ HandleSearch \/ SearchResolve \/ SearchFail
  \/ AddToTeam \/ AddResolve \/ AddFail
  \/ RemoveFromTeam \/ StartEdit \/ TypeNickname \/ SaveNickname \/ CancelEdit
  \/ ClearTeam \/ Reload

SpecTeam == InitTeam /\ [][NextTeam]_vars

SpecTeamStored == InitTeamStored /\ [][NextTeam]_vars

\* a full localStorage gets room again (the user or another page of the same
\* origin deletes data): from now on setItem does not throw
StorageFreed ==
  /\ storage = "full"
  /\ storage' = "ok"
  /\ UNCHANGED <<team, isHydrated, searchQuery, searchResults, isSearching,
                 editingNickname, nicknameInput, stored, effects, fetches,
                 searches, otherVars>>

NextTeamFreed == NextTeam \/ StorageFreed

\* the TeamBuilder on a localStorage that may be full and may get room again
SpecTeamFreed == InitTeam /\ [][NextTeamFreed]_vars

\* the teams an earlier visit may have stored
StoredTeams ==
  UNION { [1..n -> [id : SearchResultIds, nickname : {Null, Some(<<"z">>)}]] :
          n \in 0..2 }

\* a mount on any of these teams, on no value, on the empty string or on a
\* text that is not JSON, with a localStorage in any state
InitMount ==
  /\ team = <<>> /\ isHydrated = FALSE
  /\ searchQuery = <<>> /\ searchResults = <<>> /\ isSearching = FALSE
  /\ editingNickname = Null /\ nicknameInput = <<>>
  /\ stored \in {Null, Some(EmptyText), Some(CorruptText)}
                 \cup {Some(JSONstringify(t)) : t \in StoredTeams}
  /\ storage \in {"ok", "full", "denied"}
  /\ effects = MountEffects
  /\ fetches = NoFetches /\ searches = <<>>
  /\ FlattenIdle /\ EffIdle /\ FmtIdle /\ returned = <<>> /\ LibIdle

\* the mount alone: the two effects, and the page loaded again at any time
NextMount == LoadEffect \/ SaveEffect \/ Reload

\* React runs the effects of a commit
SpecMountFair ==
  InitMount /\ [][NextMount]_vars
  /\ WF_vars(LoadEffect) /\ WF_vars(SaveEffect)

(***************************************************************************)
(* Properties of the TeamBuilder                                           *)
(***************************************************************************)
\* C19: under every interleaving of addToTeam (which awaits its fetch
\* between its checks and its state update), removeFromTeam, saveNickname
\* and clear-team, starting from an empty stored team, the team holds at
\* most MAX_TEAM_SIZE members.
C19_AtMostSix == Len(team) <= MAX_TEAM_SIZE

\* nothing is waiting: no effect, no fetch, no search
Quiescent == effects = <<>> /\ InFlight = 0 /\ searches = <<>>

\* the stored value is the serialization of the current team, and a mount
\* would load exactly the current team from it
StoredIsTeam ==
  /\ stored = Some(JSONstringify(team))
  /\ JSONparse(ValueOf(stored)) = Return(team)

\* C20: once the team builder is hydrated, every change to the team is saved
\* by the save effect, so that in every quiescent state (no effect, fetch or
\* search waiting) the stored value is the serialization of the current team
\* and a later mount loads exactly that team.
C20_StoredInEveryQuiescentState == (isHydrated /\ Quiescent) => StoredIsTeam

\* C21: under every interleaving of addToTeam calls (two calls for the same
\* id may wait for their fetches at the same time), removeFromTeam and
\* clear-team, starting from an empty stored team, no two team members have
\* the same id.
C21_NoDuplicateIds ==
  \A i \in 1..Len(team) : \A j \in 1..Len(team) :
    team[i].id = team[j].id => i = j

\* a step that writes to localStorage
Writes == stored' # stored

\* C22: the save effect never writes to localStorage before the load effect
\* has finished: no step writes while isHydrated is false or while the load
\* effect is still waiting, the save effect of a render whose isHydrated was
\* false writes nothing, and what is written is the serialization of the
\* current team, so the empty initial team never replaces a stored team
\* that loads.
C22_NoWriteBeforeHydration ==
  [][/\ ~isHydrated => ~Writes
     /\ Writes =>
          /\ effects # <<>>
          /\ Head(effects).fx = "save"
          /\ Head(effects).isHydrated
          /\ stored' = Some(JSONstringify(team))]_vars

\* the stored team has loaded, the save effect of the first render has run,
\* and the stored team is still there
C22_Witness ==
  /\ isHydrated /\ storage = "ok"
  /\ team = StoredTeam
  /\ effects = <<SaveEntry(StoredTeam, TRUE)>>
  /\ stored = Some(JSONstringify(StoredTeam))

\* reading the stored value throws
ReadingThrows == storage = "denied"

\* parsing the stored value throws
ParsingThrows ==
  /\ ~ReadingThrows
  /\ stored # Null
  /\ ValueOf(stored).kind = "corrupt"

\* a step that runs the load effect
LoadStep == effects # <<>> /\ Head(effects).fx = "load" /\ effects' # effects

\* C23: after mount the team builder always becomes hydrated, whether the
\* stored value is absent, loads, or reading or parsing it throws; when
\* loading throws the team stays empty and the builder goes on to its next
\* render (the error ends in the effect).
C23_AlwaysHydrates ==
  /\ (~isHydrated) ~> isHydrated
  /\ [][LoadStep =>
          /\ isHydrated'
          /\ (ReadingThrows \/ ParsingThrows) => team' = <<>>
          /\ effects'[Len(effects')] = SaveEntry(team', TRUE)]_vars

\* hydrated, with an empty team, right after the load effect ran on a text
\* that is not JSON
C23_Witness ==
  /\ isHydrated /\ team = <<>>
  /\ stored = Some(CorruptText)
  /\ effects = <<SaveEntry(<<>>, FALSE), SaveEntry(<<>>, TRUE)>>

\* what the search box shows for a query whose search has returned
ResultsOf(query) == SliceTo(searchPokemon(query), 8)

\* C28: once no search request is in flight, the displayed search results
\* are those of the most recently typed query (empty when that query is
\* blank) and isSearching is false, in whatever order the responses of the
\* searchPokemon calls arrive.
C28_ResultsOfLastQuery ==
  searches = <<>> =>
    /\ searchResults = ResultsOf(searchQuery)
    /\ ~isSearching

(***************************************************************************)
(* getPokemon, getPokemonSpecies, getMove over apiFetch (lib/api.ts)       *)
(***************************************************************************)
appVars == <<flattenVars, effVars, callVars, fmtVars, teamVars>>

notGetVars == <<appVars, listVars, moveVars, stripVars>>

\* the letter e with an acute accent
CharEAcute == "U+00E9"

\* "https://pokeapi.co/api/v2"
BASE_URL ==
  <<"h", "t", "t", "p", "s", ":", "/", "/", "p", "o", "k", "e", "a", "p", "i",
    ".", "c", "o", "/", "a", "p", "i", "/", "v", "2">>

Str404 == <<"4", "0", "4">>
StrPikachu == <<"p", "i", "k", "a", "c", "h", "u">>
StrMew == <<"m", "e", "w">>
StrPokemonPath == <<"/", "p", "o", "k", "e", "m", "o", "n", "/">>
StrSpeciesPath ==
  <<"/", "p", "o", "k", "e", "m", "o", "n", "-", "s", "p", "e", "c", "i", "e",
    "s", "/">>
StrMovePath == <<"/", "m", "o", "v", "e", "/">>
StrApiError ==
  <<"P", "o", "k", CharEAcute, "A", "P", "I", " ", "e", "r", "r", "o", "r",
    ":", " ">>
StrFor == <<" ", "f", "o", "r", " ">>

\* the three functions, by the resource they fetch
Resources3 == {"pokemon", "pokemon-species", "move"}

NumberArg(n) == [isNumber |-> TRUE, n |-> n, s |-> <<>>]
StringArg(s) == [isNumber |-> FALSE, n |-> 0, s |-> s]

\* the ids and names asked for
IdOrNames ==
  {NumberArg(1), NumberArg(25), NumberArg(404), NumberArg(1404),
   StringArg(StrPikachu), StringArg(StrMew), StringArg(Str404)}

\* the statuses the API answers with
Statuses == {200, 400, 404, 429, 500, 503}

\* `${idOrName}`
ArgToString(arg) == IF arg.isNumber THEN NumberToString(arg.n) ELSE arg.s

\* `/pokemon/${idOrName}`, `/pokemon-species/${idOrName}`, `/move/${nameOrId}`
Endpoint(res, arg) ==
  (CASE res = "pokemon" -> StrPokemonPath
     [] res = "pokemon-species" -> StrSpeciesPath
     [] res = "move" -> StrMovePath) \o ArgToString(arg)

\* str.startsWith(prefix)
StartsWith(str, prefix) ==
  Len(str) >= Len(prefix) /\ SubSeq(str, 1, Len(prefix)) = prefix

\* str.includes(part)
Includes(str, part) ==
  \E i \in 1..(Len(str) - Len(part) + 1) :
    SubSeq(str, i, i + Len(part) - 1) = part

\* apiFetch: the url fetched
Url(endpoint) ==
  IF StartsWith(endpoint, <<"h", "t", "t", "p">>) THEN endpoint
  ELSE BASE_URL \o endpoint

\* response.ok
Ok(st) == 200 <= st /\ st <= 299

\* `PokeAPI error: ${response.status} for ${url}`
ErrorMessage(st, url) == StrApiError \o NumberToString(st) \o StrFor \o url

Data == [kind |-> "data", message |-> <<>>]
NullResult == [kind |-> "null", message |-> <<>>]
Thrown(msg) == [kind |-> "error", message |-> msg]

\* apiFetch(endpoint) once the response has status st
apiFetch(endpoint, st) ==
  IF ~Ok(st) THEN Thrown(ErrorMessage(st, Url(endpoint))) ELSE Data

\* catch (error) { if (error instanceof Error &&
\* error.message.includes("404")) return null; throw error; }
Catch404(out) ==
  IF out.kind = "error" /\ Includes(out.message, Str404)
  THEN NullResult ELSE out

InitGet ==
  /\ resource \in Resources3
  /\ idOrName \in IdOrNames
  /\ status = 0 /\ fetched = NoOutcome /\ gpc = "init"
  /\ FlattenIdle /\ EffIdle /\ FmtIdle /\ returned = <<>> /\ TeamIdle
  /\ ListIdle /\ MovesIdle /\ StripIdle

\* the function calls apiFetch, which awaits fetch(url)
GetRequest ==
  /\ gpc = "init"
  /\ gpc' = "awaiting"
  /\ UNCHANGED <<resource, idOrName, status, fetched, notGetVars>>

\* the API answers: apiFetch returns the data or throws, and the function's
\* catch block returns null or throws again
GetRespond ==
  /\ gpc = "awaiting"
  /\ \E st \in Statuses : status' = st
  /\ fetched' = Catch404(apiFetch(Endpoint(resource, idOrName), status'))
  /\ gpc' = "done"
  /\ UNCHANGED <<resource, idOrName, notGetVars>>

NextGet == GetRequest \/ GetRespond

SpecGet == InitGet /\ [][NextGet]_vars

\* C24: getPokemon (and likewise getPokemonSpecies and getMove) returns null
\* exactly when the API answers with status 404; for every other status
\* that is not OK, whatever the id or name asked for, it throws.
C24_NullExactlyOn404 ==
  gpc = "done" =>
    /\ (fetched.kind = "null") <=> (status = 404)
    /\ (~Ok(status) /\ status # 404) => fetched.kind = "error"

(***************************************************************************)
(* getPokemonList (lib/api.ts) and the browse branch of the Pokedex page   *)
(* (app/pokedex/page.tsx)                                                  *)
(***************************************************************************)
PAGE_SIZE == 20

\* the largest page number asked for
MaxPage == 10

notListVars == <<appVars, getVars, moveVars, stripVars>>

\* Math.max(a, b): NaN as soon as one side is NaN
MathMax(a, b) ==
  IF a.nan \/ b.nan THEN NaN ELSE IF a.val >= b.val THEN a ELSE b

\* Math.min(a, b): NaN as soon as one side is NaN
MathMin(a, b) ==
  IF a.nan \/ b.nan THEN NaN ELSE IF a.val <= b.val THEN a ELSE b

\* a - b and a * b on numbers
Minus(a, b) == IF a.nan \/ b.nan THEN NaN ELSE Num(a.val - b.val)
Times(a, b) == IF a.nan \/ b.nan THEN NaN ELSE Num(a.val * b.val)

\* ?page=... as typed into the address bar or linked by the page
PageParams ==
  {Null, Some(<<"a", "b", "c">>), Some(<<"-", "1">>)}
  \cup {Some(NumberToString(p)) : p \in 0..MaxPage}

\* the limits and offsets of the direct calls
Limits == {1, 20, 21, 151, 152}
Offsets == {0, 1, 20, 130, 131, 132, 140, 150, 151, 152, 160}

InitList ==
  /\ \/ /\ lpc = "page"
        /\ pageParam \in PageParams
        /\ limit = Num(0) /\ offset = Num(0)
     \/ /\ lpc = "list"
        /\ pageParam = Null
        /\ \E l \in Limits : limit = Num(l)
        /\ \E o \in Offsets : offset = Num(o)
  /\ clampedLimit = Num(0)
  /\ FlattenIdle /\ EffIdle /\ FmtIdle /\ returned = <<>> /\ TeamIdle
  /\ GetIdle /\ MovesIdle /\ StripIdle

\* const currentPage = Math.max(1, parseInt(params.page ?? "1"))
CurrentPage(param) ==
  MathMax(Num(1), parseInt(IF param = Null THEN <<"1">> ELSE ValueOf(param)))

\* the Pokedex page without a search: getPokemonListWithDetails(PAGE_SIZE,
\* offset), which calls getPokemonList(limit, offset)
PokedexPage ==
  /\ lpc = "page"
  /\ offset' = Times(Minus(CurrentPage(pageParam), Num(1)), Num(PAGE_SIZE))
  /\ limit' = Num(PAGE_SIZE)
  /\ lpc' = "list"
  /\ UNCHANGED <<pageParam, clampedLimit, notListVars>>

\* getPokemonList(limit, offset) up to its request
GetPokemonList ==
  /\ lpc = "list"
  /\ clampedLimit' = MathMin(limit, Minus(Num(LETS_GO_MAX_POKEMON), offset))
  /\ lpc' = "sent"
  /\ UNCHANGED <<pageParam, limit, offset, notListVars>>

NextList == PokedexPage \/ GetPokemonList

SpecList == InitList /\ [][NextList]_vars

\* C25: getPokemonList never requests Pokemon beyond Gen 1: for every limit
\* of at least 1 and every offset of at least 0, also the offset
\* (page - 1) * 20 of the Pokedex page for any page of at least 1, the limit
\* sent is a count between 0 and the limit asked for, and offset plus that
\* limit is at most 151.
C25_LimitWithinGen1 ==
  (/\ lpc = "sent"
   /\ ~limit.nan /\ limit.val >= 1
   /\ ~offset.nan /\ offset.val >= 0)
  => /\ ~clampedLimit.nan
     /\ 0 <= clampedLimit.val
     /\ clampedLimit.val <= limit.val
     /\ offset.val + clampedLimit.val <= LETS_GO_MAX_POKEMON

(***************************************************************************)
(* getLetsGoMoves (lib/api.ts)                                             *)
(***************************************************************************)
\* the longest list of moves of a Pokemon
MaxMoves == 3

notMoveVars == <<appVars, getVars, listVars, stripVars>>

LETS_GO_VERSION_GROUP == "lets-go-pikachu-lets-go-eevee"

StrCut == <<"c", "u", "t">>
StrFly == <<"f", "l", "y">>
StrFlash == <<"f", "l", "a", "s", "h">>
StrSurf == <<"s", "u", "r", "f">>
StrFlashCannon == <<"f", "l", "a", "s", "h", "c", "a", "n", "n", "o", "n">>

\* the names of the moves of the API
MoveNames == {StrCut, StrFly, StrFlash, StrSurf, StrFlashCannon}

\* MoveVersionGroupDetail
Detail(level, method, group) ==
  [level_learned_at |-> level,
   move_learn_method |-> [name |-> method],
   version_group |-> [name |-> group]]

LetsGo(level, method) == Detail(level, method, LETS_GO_VERSION_GROUP)
RedBlue(level, method) == Detail(level, method, "red-blue")

\* the version_group_details of a move, as the API lists them: one detail
\* for each game and learn method
VersionGroupDetails ==
  {<<>>,
   <<RedBlue(3, "level-up")>>,
   <<LetsGo(1, "level-up")>>,
   <<LetsGo(5, "level-up")>>,
   <<LetsGo(0, "machine")>>,
   <<RedBlue(9, "level-up"), LetsGo(0, "machine")>>,
   <<LetsGo(5, "level-up"), LetsGo(0, "machine")>>,
   <<RedBlue(0, "machine"), LetsGo(9, "level-up")>>}

\* the lists of up to MaxMoves moves with different names
MoveLists ==
  UNION { { ms \in [1..n -> [move : [name : MoveNames],
                             version_group_details : VersionGroupDetails]] :
              \A i \in 1..n : \A j \in 1..n :
                ms[i].move.name = ms[j].move.name => i = j } :
          n \in 0..MaxMoves }

\* the letters, in the order of the alphabet
Letters ==
  <<"a", "b", "c", "d", "e", "f", "g", "h", "i", "j", "k", "l", "m", "n",
    "o", "p", "q", "r", "s", "t", "u", "v", "w", "x", "y", "z">>

Rank(c) == CHOOSE i \in 1..Len(Letters) : Letters[i] = c

RECURSIVE localeCompare(_, _)
\* a.localeCompare(b) on lower-case words: negative, 0 or positive
localeCompare(a, b) ==
  IF a = <<>> /\ b = <<>> THEN 0
  ELSE IF a = <<>> THEN 0 - 1
  ELSE IF b = <<>> THEN 1
  ELSE IF Rank(Head(a)) < Rank(Head(b)) THEN 0 - 1
  ELSE IF Rank(Head(a)) > Rank(Head(b)) THEN 1
  ELSE localeCompare(Tail(a), Tail(b))

\* a sort callback that orders the level-up moves by falling level
CompareFallingLevel(a, b) ==
  IF a.learnMethod = "level-up" /\ b.learnMethod # "level-up" THEN 0 - 1
  ELSE IF a.learnMethod # "level-up" /\ b.learnMethod = "level-up" THEN 1
  ELSE IF a.learnMethod = "level-up" /\ b.learnMethod = "level-up"
       THEN b.level - a.level
  ELSE localeCompare(a.name, b.name)

\* the callback of letsGoMoves.sort
Compare(a, b) ==
  IF a.learnMethod = "level-up" /\ b.learnMethod # "level-up" THEN 0 - 1
  ELSE IF a.learnMethod # "level-up" /\ b.learnMethod = "level-up" THEN 1
  ELSE IF a.learnMethod = "level-up" /\ b.learnMethod = "level-up"
       THEN a.level - b.level
  ELSE localeCompare(a.name, b.name)

RECURSIVE InsertSorted(_, _)
\* x put into the sorted array arr, after the elements it does not precede
InsertSorted(arr, x) ==
  IF arr = <<>> THEN <<x>>
  ELSE IF Compare(x, Head(arr)) < 0 THEN <<x>> \o arr
  ELSE <<Head(arr)>> \o InsertSorted(Tail(arr), x)

RECURSIVE SortFrom(_, _, _)
SortFrom(arr, i, acc) ==
  IF i > Len(arr) THEN acc ELSE SortFrom(arr, i + 1, InsertSorted(acc, arr[i]))

\* Array.prototype.sort(callback): the stable sort
Sort(arr) == SortFrom(arr, 1, <<>>)

\* details.find((detail) => detail.version_group.name ===
\* LETS_GO_VERSION_GROUP): the first one, Null when there is none
FindLetsGo(dets) ==
  LET hits == {i \in 1..Len(dets) :
                 dets[i].version_group.name = LETS_GO_VERSION_GROUP}
  IN IF hits = {} THEN Null
     ELSE Some(dets[CHOOSE i \in hits : \A j \in hits : i <= j])

\* the element pushed for a move entry and its Let's Go detail
LetsGoMove(moveEntry, letsGoDetail) ==
  [name |-> moveEntry.move.name,
   learnMethod |-> letsGoDetail.move_learn_method.name,
   level |-> letsGoDetail.level_learned_at]

InitMoves ==
  /\ \E ms \in MoveLists : pokemon = [moves |-> ms]
  /\ letsGoMoves = <<>> /\ mi = 1 /\ mpc = "loop"
  /\ FlattenIdle /\ EffIdle /\ FmtIdle /\ returned = <<>> /\ TeamIdle
  /\ GetIdle /\ ListIdle /\ StripIdle

\* one turn of for (const moveEntry of pokemon.moves)
MoveEntryStep ==
  /\ mpc = "loop" /\ mi <= Len(pokemon.moves)
  /\ LET moveEntry == pokemon.moves[mi]
         letsGoDetail == FindLetsGo(moveEntry.version_group_details)
     IN letsGoMoves' =
          IF letsGoDetail # Null
          THEN Append(letsGoMoves, LetsGoMove(moveEntry, ValueOf(letsGoDetail)))
          ELSE letsGoMoves
  /\ mi' = mi + 1
  /\ UNCHANGED <<pokemon, mpc, notMoveVars>>

\* return letsGoMoves.sort(...) : the array is sorted in place
SortReturn ==
  /\ mpc = "loop" /\ mi > Len(pokemon.moves)
  /\ letsGoMoves' = Sort(letsGoMoves)
  /\ mpc' = "done"
  /\ UNCHANGED <<pokemon, mi, notMoveVars>>

NextMoves == MoveEntryStep \/ SortReturn

SpecMoves == InitMoves /\ [][NextMoves]_vars

\* the move entry has a detail for the Let's Go version group
HasLetsGoDetail(moveEntry) ==
  \E i \in 1..Len(moveEntry.version_group_details) :
    moveEntry.version_group_details[i].version_group.name
      = LETS_GO_VERSION_GROUP

\* the names of the moves of the Pokemon that have such a detail
LetsGoNames ==
  {pokemon.moves[i].move.name :
     i \in {j \in 1..Len(pokemon.moves) : HasLetsGoDetail(pokemon.moves[j])}}

IsLevelUp(m) == m.learnMethod = "level-up"

\* a comes no later than b in a dictionary
AlphabeticalLeq(a, b) ==
  \/ Len(a) <= Len(b) /\ SubSeq(b, 1, Len(a)) = a
  \/ \E n \in 1..(IF Len(a) < Len(b) THEN Len(a) ELSE Len(b)) :
       /\ SubSeq(a, 1, n - 1) = SubSeq(b, 1, n - 1)
       /\ Rank(a[n]) < Rank(b[n])

\* C26: getLetsGoMoves returns exactly the moves of the Pokemon that have a
\* detail for the Let's Go version group, each once, all level-up moves
\* first in non-decreasing level order, then all other moves in
\* alphabetical order of name.
C26_LetsGoMovesSorted ==
  mpc = "done" =>
    /\ {letsGoMoves[i].name : i \in 1..Len(letsGoMoves)} = LetsGoNames
    /\ Len(letsGoMoves) = Cardinality(LetsGoNames)
    /\ \A i \in 1..Len(letsGoMoves) : \A j \in 1..Len(letsGoMoves) :
         i < j =>
           /\ IsLevelUp(letsGoMoves[j]) => IsLevelUp(letsGoMoves[i])
           /\ (IsLevelUp(letsGoMoves[i]) /\ IsLevelUp(letsGoMoves[j]))
                => letsGoMoves[i].level <= letsGoMoves[j].level
           /\ (~IsLevelUp(letsGoMoves[i]) /\ ~IsLevelUp(letsGoMoves[j]))
                => AlphabeticalLeq(letsGoMoves[i].name, letsGoMoves[j].name)

\* a move learned at a higher level, a move without a Let's Go detail and a
\* move learned at a lower level, listed in that order: the second is left
\* out and the other two are returned in the opposite order
C26_Witness ==
  /\ mpc = "done"
  /\ Len(pokemon.moves) = MaxMoves
  /\ ~HasLetsGoDetail(pokemon.moves[2])
  /\ Len(letsGoMoves) = MaxMoves - 1
  /\ letsGoMoves[1].name = pokemon.moves[MaxMoves].move.name
  /\ letsGoMoves[1].level < letsGoMoves[2].level
  /\ IsLevelUp(letsGoMoves[2])
  /\ letsGoMoves[Len(letsGoMoves)].name = pokemon.moves[1].move.name

(***************************************************************************)
(* The pagination strip of PokedexPage (app/pokedex/page.tsx)              *)
(***************************************************************************)
\* the largest number of pages
MaxTotalPages == 9

notStripVars == <<appVars, getVars, listVars, moveVars>>

\* Array.from({ length: totalPages }, (_, i) => i + 1)
ArrayFrom(length) == [i \in 1..length |-> i]

MathAbs(x) == IF x < 0 THEN 0 - x ELSE x

\* the window of the comment above the strip: "1 ... 3 4 5 6 7 ... 8"
ShowPageWithinTwo(page, total, current) ==
  \/ page = 1 \/ page = total
  \/ MathAbs(page - current) <= 2

\* the callback of .filter
ShowPage(page, total, current) ==
  \/ page = 1 \/ page = total
  \/ MathAbs(page - current) <= 1

\* pages.filter(...)
FilterPages(pages, total, current) ==
  LET Keep(page) == ShowPage(page, total, current)
  IN SelectSeq(pages, Keep)

\* the items of the strip: a page number or the string "..."
Ellipsis == [ellipsis |-> TRUE, page |-> 0]
PageItem(page) == [ellipsis |-> FALSE, page |-> page]

\* the callback of .reduce
ReduceStepFn(acc, page, idx, arr) ==
  LET pushed == IF idx > 1 /\ page - arr[idx - 1] > 1
                THEN Append(acc, Ellipsis) ELSE acc
  IN Append(pushed, PageItem(page))

RECURSIVE ReduceFrom(_, _, _)
ReduceFrom(arr, idx, acc) ==
  IF idx > Len(arr) THEN acc
  ELSE ReduceFrom(arr, idx + 1, ReduceStepFn(acc, arr[idx], idx, arr))

\* arr.reduce(..., [])
ReducePages(arr) == ReduceFrom(arr, 1, <<>>)

\* the strip is rendered only when totalPages > 1; currentPage is any
\* page number the address can carry, also one after the last page
InitStrip ==
  /\ totalPages \in 2..MaxTotalPages
  /\ currentPage \in 1..(MaxTotalPages + 1)
  /\ shownPages = <<>> /\ pageItems = <<>> /\ ppc = "filter"
  /\ FlattenIdle /\ EffIdle /\ FmtIdle /\ returned = <<>> /\ TeamIdle
  /\ GetIdle /\ ListIdle /\ MovesIdle

StripFilter ==
  /\ ppc = "filter"
  /\ shownPages' = FilterPages(ArrayFrom(totalPages), totalPages, currentPage)
  /\ ppc' = "reduce"
  /\ UNCHANGED <<totalPages, currentPage, pageItems, notStripVars>>

StripReduce ==
  /\ ppc = "reduce"
  /\ pageItems' = ReducePages(shownPages)
  /\ ppc' = "done"
  /\ UNCHANGED <<totalPages, currentPage, shownPages, notStripVars>>

NextStrip == StripFilter \/ StripReduce

SpecStrip == InitStrip /\ [][NextStrip]_vars

\* the page numbers the strip has to show
PagesToShow ==
  {1, totalPages}
    \cup {p \in 1..totalPages : p - currentPage \in {0 - 1, 0, 1}}

\* the positions of the strip that hold a page number
PagePositions == {i \in 1..Len(pageItems) : ~pageItems[i].ellipsis}

\* C27: for every total page count >= 2 and every current page between 1
\* and the total, the strip shows exactly the first page, the last page and
\* the pages within 1 of the current page, in increasing order and none
\* twice, with one "..." between each two consecutive shown pages that are
\* not adjacent numbers, and no "..." anywhere else.
C27_PaginationStrip ==
  (ppc = "done" /\ currentPage \in 1..totalPages) =>
    /\ {pageItems[i].page : i \in PagePositions} = PagesToShow
    /\ Cardinality(PagePositions) = Cardinality(PagesToShow)
    /\ \A i \in PagePositions : \A j \in PagePositions :
         i < j => pageItems[i].page < pageItems[j].page
    /\ 1 \in PagePositions /\ Len(pageItems) \in PagePositions
    /\ \A i \in 1..(Len(pageItems) - 1) :
         IF i \in PagePositions /\ (i + 1) \in PagePositions
         THEN pageItems[i + 1].page = pageItems[i].page + 1
         ELSE IF i \in PagePositions
         THEN /\ (i + 2) \in PagePositions
              /\ pageItems[i + 2].page > pageItems[i].page + 1
         ELSE (i + 1) \in PagePositions

\* 8 pages, page 5 open: the strip is 1 ... 4 5 6 ... 8
C27_Witness ==
  /\ ppc = "done" /\ totalPages = 8 /\ currentPage = 5
  /\ pageItems = <<PageItem(1), Ellipsis, PageItem(4), PageItem(5),
                    PageItem(6), Ellipsis, PageItem(8)>>

====
